---- MODULE Spec2Model ----
(***************************************************************************)
(* Verification model of devsapp/agentrun-sandbox-demos.                   *)
(*                                                                         *)
(* Part 1 (specification Spec): the sandbox registry of                    *)
(*   browseruse-with-agentrun-demo/examples/runner.py together with the    *)
(*   SandboxManager of examples/sandbox_manager.py and the provider behind *)
(*   it (which sandboxes are allocated).                                   *)
(* Part 2 (specification LogSpec): the log buffer and the WebSocket        *)
(*   fan-out of browseruse-with-agentrun-demo/vncviewer/vnc_server.py.     *)
(* Part 3 (specification ExecSpec): execute_code of                        *)
(*   sandbox-all-in-one-demo/src/main.py with the executors of             *)
(*   src/sandbox_executor.py and the chat WebSockets it broadcasts to.     *)
(* Part 4 (specification SigSpec): the registry of runner.py step by step  *)
(*   in the program's main thread, with its lock and its signal handler.   *)
(***************************************************************************)
EXTENDS Integers, Sequences, FiniteSets, TLC

(***************************************************************************)
(* Bounds of the model.                                                    *)
(***************************************************************************)
\* Number of sandboxes the provider hands out in one run.
MaxSandboxes == 3
\* Number of log events written in one run.
MaxEvents == 3
\* Number of log events written in one run without subscribers.
MaxBurst == 1500
\* Number of interrupt signals delivered in one run.
MaxSignals == 2
\* Number of requests the chat server handles in one run.
MaxOps == 2
\* Number of requests about the session's sandbox in one run.
MaxRequests == 3
\* Number of chat turns in one run.
MaxTurns == 3
\* Number of chat messages stored in the session in one run.
MaxMessages == 3
\* Number of chunks of one answer of the generator.
MaxChunks == 2

(***************************************************************************)
(* Input domains.  A session key is (user_id, session_id, thread_id); the  *)
(* empty string is the value `not x` rejects in runner.py:111.             *)
(***************************************************************************)
\* The keys the calls are made with: two valid keys, and one key for each
\* component that can be empty.
KeyInputs ==
    { <<"u1", "s1", "t1">>, <<"u2", "s1", "t1">>,
      <<"", "s1", "t1">>, <<"u1", "", "t1">>, <<"u1", "s1", "">> }

\* Provider-assigned sandbox ids are 1..MaxSandboxes; NoId is Python's None.
NoId == 0
SandboxIds == 1..MaxSandboxes
NoKey == <<>>

VARIABLES
    sandbox_instances,   \* runner._sandbox_instances: session key -> SandboxManager
    sandbox_id_to_key,   \* runner._sandbox_id_to_key: sandbox id -> session key
    allocated,           \* sandboxes that exist at the provider
    created,             \* number of sandbox ids the provider has issued
    lastCall             \* the last registry call: its arguments and what it returned

regVars == <<sandbox_instances, sandbox_id_to_key, allocated, created, lastCall>>

VARIABLES
    log_queues,      \* vnc_server.log_queues: sandbox id -> deque of log entries
    log_websockets,  \* vnc_server.log_websockets: sandbox id -> list of WebSockets
    next_event,      \* the number of the next log entry (entries are numbered as written)
    ws_pc,           \* websocket_log_endpoint of each WebSocket: where it is
    ws_subject,      \* ... its sandbox_id
    history_logs,    \* ... its local history_logs
    sent,            \* ... how many entries of history_logs it has sent
    ws_error,        \* ... whether it ended in an unhandled exception
    client_open,     \* whether the client's end of each WebSocket is open
    received,        \* what each client has received, in order
    wr_pc,           \* write_log of each producer request: where it is
    wr_subject,      \* ... its sandbox_id
    wr_event,        \* ... its log_data
    wr_targets,      \* ... the WebSockets of its snapshot it has yet to send to
    wr_error         \* ... whether its last call ended in an unhandled exception

logVars == <<log_queues, log_websockets, next_event, ws_pc, ws_subject, history_logs,
             sent, ws_error, client_open, received, wr_pc, wr_subject, wr_event,
             wr_targets, wr_error>>

(***************************************************************************)
(* Python dict operations.                                                 *)
(***************************************************************************)
EmptyDict == [x \in {} |-> x]
DictSet(d, k, v) == [x \in (DOMAIN d) \cup {k} |-> IF x = k THEN v ELSE d[x]]
DictDel(d, k) == [x \in (DOMAIN d) \ {k} |-> d[x]]
DictGet(d, k, default) == IF k \in DOMAIN d THEN d[k] ELSE default

(***************************************************************************)
(* SandboxManager (examples/sandbox_manager.py).  A manager is the pair of *)
(* its _sandbox (the SDK object, identified by the provider's sandbox) and *)
(* its _sandbox_id; the URLs are functions of the sandbox and carry no     *)
(* state of their own.                                                     *)
(***************************************************************************)
NewManager == [sandbox |-> NoId, sandbox_id |-> NoId]

is_active(m) == m.sandbox # NoId

\* get_info: None when there is no sandbox id, else the info dict, which is
\* identified here by its "sandbox_id" entry.
get_info(m) == IF m.sandbox_id = NoId THEN NoId ELSE m.sandbox_id

\* The ways SandboxManager.create can end: it returns the info dict ("ok"),
\* Sandbox.create raises ("create_fails"), or the sandbox exists and fetching
\* its CDP/VNC URL raises ("url_fails").  Both failures surface as RuntimeError.
CreateOutcomes == {"ok", "create_fails", "url_fails"}

ManagerCreate(m, alloc, newid, outcome) ==
    IF outcome = "create_fails"
    THEN [m |-> m, alloc |-> alloc, raised |-> TRUE, issued |-> 0]
    ELSE [m |-> [sandbox |-> newid, sandbox_id |-> newid],
          alloc |-> alloc \cup {newid},
          raised |-> (outcome = "url_fails"),
          issued |-> 1]

\* SandboxManager.destroy: no-op without a sandbox; otherwise calls the SDK's
\* delete, which removes the sandbox at the provider when it succeeds (ok) and
\* raises otherwise; the finally block clears the local fields either way.
ManagerDestroy(m, alloc, ok) ==
    IF m.sandbox = NoId
    THEN [m |-> m, alloc |-> alloc, torn |-> {}, failed |-> {}]
    ELSE [m |-> NewManager,
          alloc |-> IF ok THEN alloc \ {m.sandbox} ELSE alloc,
          torn |-> {m.sandbox},
          failed |-> IF ok THEN {} ELSE {m.sandbox}]

\* Variant: the SDK's exception escapes SandboxManager.destroy.
ManagerDestroyRaises_Propagates(ok) == ~ok

\* Whether SandboxManager.destroy lets the SDK's exception out: it never does
\* (except Exception at sandbox_manager.py:215).
ManagerDestroyRaises(ok) == FALSE

(***************************************************************************)
(* The registry (examples/runner.py).  A world is the two indices plus the *)
(* provider's allocation set; every operation is a function of the world   *)
(* and runs under _lock as a whole.                                        *)
(***************************************************************************)
World == [si |-> sandbox_instances, rev |-> sandbox_id_to_key, alloc |-> allocated]

\* What a call was and what it did: its arguments, its result ("ok" and the
\* exception names for create_or_get_sandbox, "True"/"False" for
\* destroy_sandbox), the sandbox id it returned, the number of times it invoked
\* the provider's create, the sandboxes whose provider teardown it called
\* (torn) and saw fail (failed), and for destroy_all_sandboxes the ids of its
\* snapshot sandbox_ids.
Call(op, key, sandbox_id, force, result, ret_id, is_new, invoked, torn, failed, ids) ==
    [op |-> op, key |-> key, sandbox_id |-> sandbox_id, force |-> force,
     result |-> result, ret_id |-> ret_id, is_new |-> is_new,
     invoked |-> invoked, torn |-> torn, failed |-> failed, ids |-> ids]

NoCall == Call("none", NoKey, NoId, FALSE, "None", NoId, FALSE, 0, {}, {}, {})

\* Variant: the reuse branch is never taken.
Reusable_Never(si, key, force) == FALSE

\* runner.py:118-125: the existing manager is reused.
Reusable(si, key, force) ==
    /\ ~force
    /\ key \in DOMAIN si
    /\ is_active(si[key])
    /\ get_info(si[key]) # NoId

\* runner.py:139-140: the new manager is saved in both dicts.
Install(w, key, m) ==
    [w EXCEPT !.si = DictSet(w.si, key, m),
              !.rev = DictSet(w.rev, m.sandbox_id, key)]

\* Variant: the key's previous entry is dropped when the create fails.
AfterFailedCreate_DropsOld(w, key, alloc) ==
    [w EXCEPT !.alloc = alloc, !.si = DictDel(w.si, key)]

\* runner.py:147-153: on a failed create the fresh manager is destroyed and the
\* error is raised; the dicts are not touched.
AfterFailedCreate(w, key, alloc) == [w EXCEPT !.alloc = alloc]

\* create_or_get_sandbox without the validation of the key at its start.
create_or_get_sandbox_NoValidation(w, user_id, session_id, thread_id, force_recreate, newid, outcome, ok) ==
    LET key == <<user_id, session_id, thread_id>> IN
    IF Reusable(w.si, key, force_recreate)
    THEN [w |-> w, issued |-> 0,
          call |-> Call("create_or_get_sandbox", key, NoId, force_recreate,
                        "ok", get_info(w.si[key]), FALSE, 0, {}, {}, {})]
    ELSE LET c == ManagerCreate(NewManager, w.alloc, newid, outcome) IN
         IF ~c.raised
         THEN [w |-> Install([w EXCEPT !.alloc = c.alloc], key, c.m),
               issued |-> c.issued,
               call |-> Call("create_or_get_sandbox", key, NoId, force_recreate,
                             "ok", c.m.sandbox_id, TRUE, 1, {}, {}, {})]
         ELSE LET d == ManagerDestroy(c.m, c.alloc, ok) IN
              [w |-> AfterFailedCreate(w, key, d.alloc),
               issued |-> c.issued,
               call |-> Call("create_or_get_sandbox", key, NoId, force_recreate,
                             "RuntimeError", NoId, FALSE, 1, d.torn, d.failed, {})]

create_or_get_sandbox(w, user_id, session_id, thread_id, force_recreate, newid, outcome, ok) ==
    LET key == <<user_id, session_id, thread_id>> IN
    IF user_id = "" \/ session_id = "" \/ thread_id = ""
    THEN [w |-> w, issued |-> 0,
          call |-> Call("create_or_get_sandbox", key, NoId, force_recreate,
                        "ValueError", NoId, FALSE, 0, {}, {}, {})]
    ELSE IF Reusable(w.si, key, force_recreate)
    THEN [w |-> w, issued |-> 0,
          call |-> Call("create_or_get_sandbox", key, NoId, force_recreate,
                        "ok", get_info(w.si[key]), FALSE, 0, {}, {}, {})]
    ELSE LET c == ManagerCreate(NewManager, w.alloc, newid, outcome) IN
         IF ~c.raised
         THEN [w |-> Install([w EXCEPT !.alloc = c.alloc], key, c.m),
               issued |-> c.issued,
               call |-> Call("create_or_get_sandbox", key, NoId, force_recreate,
                             "ok", c.m.sandbox_id, TRUE, 1, {}, {}, {})]
         ELSE LET d == ManagerDestroy(c.m, c.alloc, ok) IN
              [w |-> AfterFailedCreate(w, key, d.alloc),
               issued |-> c.issued,
               call |-> Call("create_or_get_sandbox", key, NoId, force_recreate,
                             "RuntimeError", NoId, FALSE, 1, d.torn, d.failed, {})]

\* runner.py:183-199.  Returns the info (its sandbox id) or NoId for None.
get_sandbox_info(user_id, session_id, thread_id, sandbox_id) ==
    LET key == <<user_id, session_id, thread_id>> IN
    IF sandbox_id # NoId
    THEN LET session_key == DictGet(sandbox_id_to_key, sandbox_id, NoKey) IN
         IF session_key # NoKey /\ session_key \in DOMAIN sandbox_instances
         THEN get_info(sandbox_instances[session_key])
         ELSE NoId
    ELSE IF user_id # "" /\ session_id # "" /\ thread_id # ""
            /\ key \in DOMAIN sandbox_instances
         THEN get_info(sandbox_instances[key])
         ELSE NoId

\* Variant: the reverse entry is left behind.
RemoveEntries_ForwardOnly(w, session_key, sandbox_id) ==
    [w EXCEPT !.si = DictDel(w.si, session_key)]

\* runner.py:233-234: both entries are deleted.
RemoveEntries(w, session_key, sandbox_id) ==
    [w EXCEPT !.si = DictDel(w.si, session_key),
              !.rev = DictDel(w.rev, sandbox_id)]

\* runner.py:215-241.  ok: whether the provider's teardown succeeds.
destroy_sandbox(w, sandbox_id, ok) ==
    LET session_key == DictGet(w.rev, sandbox_id, NoKey) IN
    IF session_key = NoKey
    THEN [w |-> w, ret |-> "False", torn |-> {}, failed |-> {}]
    ELSE IF session_key \notin DOMAIN w.si
    THEN [w |-> w, ret |-> "False", torn |-> {}, failed |-> {}]
    ELSE LET d == ManagerDestroy(w.si[session_key], w.alloc, ok) IN
         IF ManagerDestroyRaises(ok) /\ d.failed # {}
         THEN [w |-> [w EXCEPT !.alloc = d.alloc, !.si[session_key] = d.m],
               ret |-> "False", torn |-> d.torn, failed |-> d.failed]
         ELSE [w |-> RemoveEntries([w EXCEPT !.alloc = d.alloc], session_key, sandbox_id),
               ret |-> "True", torn |-> d.torn, failed |-> d.failed]

\* Variant: the sweep stops at the first teardown that fails.
RECURSIVE Sweep_StopsOnFailure(_, _, _)
Sweep_StopsOnFailure(w, ids, oks) ==
    IF ids = <<>>
    THEN [w |-> w, torn |-> {}, failed |-> {}]
    ELSE LET session_key == DictGet(w.rev, Head(ids), NoKey)
             target == IF session_key # NoKey /\ session_key \in DOMAIN w.si
                       THEN w.si[session_key].sandbox ELSE NoId
             one == destroy_sandbox(w, Head(ids), target \in oks)
             rest == IF one.failed # {}
                     THEN [w |-> one.w, torn |-> {}, failed |-> {}]
                     ELSE Sweep_StopsOnFailure(one.w, Tail(ids), oks)
         IN [w |-> rest.w, torn |-> one.torn \cup rest.torn,
             failed |-> one.failed \cup rest.failed]

\* runner.py:251-255: destroy_sandbox on each id of the snapshot, in the order
\* `ids`; oks is the set of sandboxes whose provider teardown succeeds.
RECURSIVE Sweep(_, _, _)
Sweep(w, ids, oks) ==
    IF ids = <<>>
    THEN [w |-> w, torn |-> {}, failed |-> {}]
    ELSE LET session_key == DictGet(w.rev, Head(ids), NoKey)
             target == IF session_key # NoKey /\ session_key \in DOMAIN w.si
                       THEN w.si[session_key].sandbox ELSE NoId
             one == destroy_sandbox(w, Head(ids), target \in oks)
             rest == Sweep(one.w, Tail(ids), oks)
         IN [w |-> rest.w, torn |-> one.torn \cup rest.torn,
             failed |-> one.failed \cup rest.failed]

\* All orders in which a snapshot (a set of ids) can be iterated.
Orders(S) == {s \in [1..Cardinality(S) -> S] : \A i, j \in 1..Cardinality(S) : i # j => s[i] # s[j]}

\* The sandboxes the registered managers hold.
ManagedSandboxes == {sandbox_instances[k].sandbox : k \in DOMAIN sandbox_instances}

(***************************************************************************)
(* Actions of the registry.                                                *)
(***************************************************************************)
SetWorld(w) ==
    /\ sandbox_instances' = w.si
    /\ sandbox_id_to_key' = w.rev
    /\ allocated' = w.alloc

CreateOrGetSandbox(user_id, session_id, thread_id, force_recreate) ==
    \E outcome \in CreateOutcomes :
    \E ok \in (IF outcome = "url_fails" THEN BOOLEAN ELSE {TRUE}) :
        \* a call that never reaches SandboxManager.create has one outcome
        /\ outcome # "ok" =>
               /\ user_id # "" /\ session_id # "" /\ thread_id # ""
               /\ ~Reusable(sandbox_instances, <<user_id, session_id, thread_id>>, force_recreate)
        /\ LET r == create_or_get_sandbox(World, user_id, session_id, thread_id,
                                          force_recreate, created + 1, outcome, ok) IN
           /\ (r.issued > 0 => created < MaxSandboxes)
           /\ SetWorld(r.w)
           /\ created' = created + r.issued
           /\ lastCall' = r.call

DestroySandbox(sandbox_id) ==
    \E ok \in BOOLEAN :
        LET r == destroy_sandbox(World, sandbox_id, ok) IN
        /\ SetWorld(r.w)
        /\ lastCall' = Call("destroy_sandbox", NoKey, sandbox_id, FALSE, r.ret,
                            NoId, FALSE, 0, r.torn, r.failed, {})
        /\ UNCHANGED created

DestroyAllSandboxes ==
    \E ids \in Orders(DOMAIN sandbox_id_to_key), oks \in SUBSET ManagedSandboxes :
        LET r == Sweep(World, ids, oks) IN
        /\ SetWorld(r.w)
        /\ lastCall' = Call("destroy_all_sandboxes", NoKey, NoId, FALSE, "None",
                            NoId, FALSE, 0, r.torn, r.failed, DOMAIN sandbox_id_to_key)
        /\ UNCHANGED created

\* The provider reclaims a sandbox on its own (idle timeout); the registry is
\* not told.
ProviderReclaim(sandbox_id) ==
    /\ sandbox_id \in allocated
    /\ allocated' = allocated \ {sandbox_id}
    /\ UNCHANGED <<sandbox_instances, sandbox_id_to_key, created, lastCall>>

VARIABLES
    chat_websockets, \* main.chat_websockets[session_id]: list of chat WebSockets
    chat_pc,         \* websocket_chat_endpoint of each chat WebSocket: where it is
    chat_open,       \* whether the client's end of each chat WebSocket is open
    chat_received,   \* what each chat client has received, in order
    ex_pc,           \* execute_code: where it is
    ex_language,     \* ... request.language
    ex_local,        \* ... executor.local_mode
    ex_response,     \* ... what the sandbox service answers to the execution
    exec_result,     \* ... run_code's exec_result
    ex_msg,          \* ... the message of the broadcast_to_session in progress
    ex_targets,      \* ... the WebSockets of its snapshot it has yet to send to
    ex_broadcasts    \* the messages broadcast_to_session was called with, in order

execVars == <<chat_websockets, chat_pc, chat_open, chat_received, ex_pc, ex_language,
              ex_local, ex_response, exec_result, ex_msg, ex_targets, ex_broadcasts>>

VARIABLES
    stack,       \* the frames of the program's main thread, the running one last
    lock_owner,  \* runner._lock: the position of the frame that holds it, or 0
    signals,     \* number of interrupt signals delivered
    exiting,     \* sys.exit was called
    exited,      \* the process has ended
    exit_code,   \* <<>> while the process runs, then <<its exit code>>
    cleanup_returned  \* <<>>, or <<the registry as the first _cleanup_on_exit
                      \* that returned left it>>

sigVars == <<stack, lock_owner, signals, exiting, exited, exit_code, cleanup_returned>>

(***************************************************************************)
(* The log server (vncviewer/vnc_server.py).  Coroutines run on one event  *)
(* loop: a handler runs without interruption from one await to the next.   *)
(* `await ws.send_json(...)` hands the message to the connection (or       *)
(* raises, when the client's end is closed) and may then suspend the       *)
(* caller, so every send is the end of one atomic step.                    *)
(***************************************************************************)
\* deque(maxlen=1000) of vnc_server.py:73
LogQueueMaxLen == 1000

LogSubjects == {"sbx-1"}
WebSockets == {"ws1", "ws2"}
Producers == {"p1", "p2"}
NoSubject == ""

\* A deque without maxlen.
DequeAppend_Unbounded(q, e) == Append(q, e)

\* deque.append with maxlen: the oldest entry is dropped when the deque is full.
DequeAppend(q, e) ==
    IF Len(q) >= LogQueueMaxLen THEN Append(Tail(q), e) ELSE Append(q, e)

InList(l, x) == \E i \in 1..Len(l) : l[i] = x

\* list.remove(x): removes the first occurrence (the caller checks InList; on a
\* list without x Python raises ValueError).
ListRemove(l, x) ==
    LET i == CHOOSE j \in 1..Len(l) : l[j] = x /\ \A h \in 1..(j - 1) : l[h] # x
    IN SubSeq(l, 1, i - 1) \o SubSeq(l, i + 1, Len(l))

\* vnc_server.py:257-269, one round of the loop of write_log: send event e to
\* the first WebSocket of targets.  A send to a closed client raises and the
\* WebSocket is removed from the live list; removing one that is no longer in
\* the list raises ValueError out of write_log.
WriteLogSend(lw, rcv, sid, e, targets) ==
    IF targets = <<>>
    THEN [lw |-> lw, rcv |-> rcv, targets |-> <<>>, raised |-> FALSE]
    ELSE LET ws == Head(targets) IN
         IF client_open[ws]
         THEN [lw |-> lw, rcv |-> [rcv EXCEPT ![ws] = Append(@, e)],
               targets |-> Tail(targets), raised |-> FALSE]
         ELSE IF InList(lw[sid], ws)
         THEN [lw |-> [lw EXCEPT ![sid] = ListRemove(@, ws)], rcv |-> rcv,
               targets |-> Tail(targets), raised |-> FALSE]
         ELSE [lw |-> lw, rcv |-> rcv, targets |-> <<>>, raised |-> TRUE]

\* vnc_server.py:244-271: write_log up to and including its first send.  A
\* send on a connection whose client has gone either raises at once or first
\* suspends the caller (the connection is closing) and raises when resumed:
\* with suspended the failing send is left to the next step.
WriteLogCall(p, sid) ==
    /\ wr_pc[p] = "idle"
    /\ \E suspended \in BOOLEAN :
       LET e == next_event
           targets == IF sid \in DOMAIN log_websockets THEN log_websockets[sid] ELSE <<>>
           r == IF suspended
                THEN [lw |-> log_websockets, rcv |-> received,
                      targets |-> targets, raised |-> FALSE]
                ELSE WriteLogSend(log_websockets, received, sid, e, targets)
       IN /\ suspended => targets # <<>> /\ ~client_open[Head(targets)]
          /\ log_queues' = DictSet(log_queues, sid, DequeAppend(DictGet(log_queues, sid, <<>>), e))
          /\ next_event' = next_event + 1
          /\ log_websockets' = r.lw
          /\ received' = r.rcv
          /\ wr_subject' = [wr_subject EXCEPT ![p] = sid]
          /\ wr_event' = [wr_event EXCEPT ![p] = e]
          /\ wr_targets' = [wr_targets EXCEPT ![p] = r.targets]
          /\ wr_error' = [wr_error EXCEPT ![p] = r.raised]
          /\ wr_pc' = [wr_pc EXCEPT ![p] = IF r.targets = <<>> THEN "idle" ELSE "sending"]
    /\ UNCHANGED <<ws_pc, ws_subject, history_logs, sent, ws_error, client_open>>

\* POST /api/log/{sandbox_id} while subscribers come and go.
WriteLog(p, sid) ==
    /\ next_event <= MaxEvents
    /\ WriteLogCall(p, sid)

\* POST /api/log/{sandbox_id} in a run in which nobody subscribes.
WriteLogBurst(p, sid) ==
    /\ next_event <= MaxBurst
    /\ WriteLogCall(p, sid)

\* write_log resumed after a send: the next round of its loop.
WriteLogResume(p) ==
    /\ wr_pc[p] = "sending"
    /\ LET r == WriteLogSend(log_websockets, received, wr_subject[p], wr_event[p], wr_targets[p])
       IN /\ log_websockets' = r.lw
          /\ received' = r.rcv
          /\ wr_targets' = [wr_targets EXCEPT ![p] = r.targets]
          /\ wr_error' = [wr_error EXCEPT ![p] = r.raised]
          /\ wr_pc' = [wr_pc EXCEPT ![p] = IF r.targets = <<>> THEN "idle" ELSE "sending"]
    /\ UNCHANGED <<log_queues, next_event, wr_subject, wr_event,
                   ws_pc, ws_subject, history_logs, sent, ws_error, client_open>>

\* vnc_server.py:332-338: the handler's exception clauses.  WebSocketDisconnect
\* removes the WebSocket without looking (ValueError when it is not in the
\* list, which ends the handler with an unhandled exception); any other
\* exception removes it only if it is there.
HandlerExit(ws, exc) ==
    LET sid == ws_subject[ws] IN
    /\ ws_pc' = [ws_pc EXCEPT ![ws] = "done"]
    /\ IF InList(log_websockets[sid], ws)
       THEN /\ log_websockets' = [log_websockets EXCEPT ![sid] = ListRemove(@, ws)]
            /\ UNCHANGED ws_error
       ELSE /\ UNCHANGED log_websockets
            /\ ws_error' = [ws_error EXCEPT ![ws] = (exc = "WebSocketDisconnect")]

\* The exceptions a send on a closed WebSocket raises, by version of the
\* framework.
SendExceptions == {"WebSocketDisconnect", "Exception"}

\* vnc_server.py:311-327: accept, register the WebSocket, snapshot the history
\* and send its first entry.
Connect(ws, sid) ==
    /\ ws_pc[ws] = "new"
    /\ LET h == DictGet(log_queues, sid, <<>>) IN
       /\ log_websockets' = DictSet(log_websockets, sid,
                                    Append(DictGet(log_websockets, sid, <<>>), ws))
       /\ ws_subject' = [ws_subject EXCEPT ![ws] = sid]
       /\ client_open' = [client_open EXCEPT ![ws] = TRUE]
       /\ history_logs' = [history_logs EXCEPT ![ws] = h]
       /\ IF h = <<>>
          THEN /\ ws_pc' = [ws_pc EXCEPT ![ws] = "listening"]
               /\ UNCHANGED <<sent, received>>
          ELSE /\ received' = [received EXCEPT ![ws] = Append(@, h[1])]
               /\ sent' = [sent EXCEPT ![ws] = 1]
               /\ ws_pc' = [ws_pc EXCEPT ![ws] = IF Len(h) = 1 THEN "listening" ELSE "replay"]
    /\ UNCHANGED <<log_queues, next_event, ws_error,
                   wr_pc, wr_subject, wr_event, wr_targets, wr_error>>

\* vnc_server.py:320-327: the handler resumed in its replay loop sends the
\* next entry of history_logs.
Replay(ws) ==
    /\ ws_pc[ws] = "replay"
    /\ IF client_open[ws]
       THEN /\ received' = [received EXCEPT ![ws] = Append(@, history_logs[ws][sent[ws] + 1])]
            /\ sent' = [sent EXCEPT ![ws] = @ + 1]
            /\ ws_pc' = [ws_pc EXCEPT ![ws] =
                            IF sent[ws] + 1 = Len(history_logs[ws]) THEN "listening" ELSE "replay"]
            /\ UNCHANGED <<log_websockets, ws_error>>
       ELSE /\ \E exc \in SendExceptions : HandlerExit(ws, exc)
            /\ UNCHANGED <<received, sent>>
    /\ UNCHANGED <<log_queues, next_event, ws_subject, history_logs, client_open,
                   wr_pc, wr_subject, wr_event, wr_targets, wr_error>>

\* vnc_server.py:330-334: receive_text raises WebSocketDisconnect once the
\* client is gone.
Receive(ws) ==
    /\ ws_pc[ws] = "listening"
    /\ ~client_open[ws]
    /\ HandlerExit(ws, "WebSocketDisconnect")
    /\ UNCHANGED <<log_queues, next_event, ws_subject, history_logs, sent, client_open,
                   received, wr_pc, wr_subject, wr_event, wr_targets, wr_error>>

\* The client closes its end of the connection.
ClientClose(ws) ==
    /\ ws_pc[ws] \in {"replay", "listening"}
    /\ client_open[ws]
    /\ client_open' = [client_open EXCEPT ![ws] = FALSE]
    /\ UNCHANGED <<log_queues, log_websockets, next_event, ws_pc, ws_subject,
                   history_logs, sent, ws_error, received,
                   wr_pc, wr_subject, wr_event, wr_targets, wr_error>>

(***************************************************************************)
(* The executors (sandbox-all-in-one-demo/src/sandbox_executor.py).        *)
(* Strings that the code concatenates are sequences of their parts.        *)
(***************************************************************************)
Languages == {"shell", "javascript", "python"}

\* What the sandbox service does with an execution on a code context
\* (python, javascript): it runs it, it reports an error item in the results
\* (the format of sandbox_executor.py:303), it rejects the request, it answers
\* with an HTTP error status, it cannot be reached, or it answers with JSON
\* that is not an object.
ContextResponses ==
    {"success", "error_item", "invalid_request", "http_error", "unreachable", "not_dict"}

\* What the sandbox service does with a shell command.
ShellResponses == {"exit_zero", "exit_nonzero", "http_error", "unreachable"}

ResponsesOf(language) == IF language = "shell" THEN ShellResponses ELSE ContextResponses

\* The responses in which the run itself succeeded.
SuccessResponses == {"success", "exit_zero"}
\* The responses in which the call did not reach the sandbox or came back
\* with a transport-level failure.
TransportFailures == {"http_error", "unreachable"}
\* The responses in which the sandbox reports a failed run.
RemoteFailures == {"error_item", "invalid_request", "exit_nonzero"}

\* The error text each failing response carries.
ErrorText(response) ==
    CASE response = "error_item" -> "NameError"
      [] response = "invalid_request" -> "bad request"
      [] response = "exit_nonzero" -> "command not found"
      [] response = "http_error" -> "503"
      [] response = "unreachable" -> "connection refused"
      [] OTHER -> ""

Item(type, text) == [type |-> type, text |-> text]

\* The JSON the service returns: {"contextId": ..., "results": [...]} or an
\* error object {"code": ..., "message": ...}.
Json(is_dict, code, message, results) ==
    [is_dict |-> is_dict, code |-> code, message |-> message, results |-> results]

ServiceJson(response) ==
    CASE response = "success" ->
             Json(TRUE, "", "", <<Item("stdout", "out"), Item("result", "")>>)
      [] response = "error_item" ->
             Json(TRUE, "", "", <<Item("error", ErrorText(response))>>)
      [] response = "invalid_request" ->
             Json(TRUE, "INVALID_REQUEST", ErrorText(response), <<>>)
      [] OTHER -> Json(FALSE, "", "", <<>>)

\* The outcome of a call: a returned value or a raised exception.
Returned(value) == [raised |-> FALSE, error |-> "", value |-> value]
Raised(error) == [raised |-> TRUE, error |-> error, value |-> Json(FALSE, "", "", <<>>)]

\* sandbox_executor.py:179-232: the local endpoint; exceptions become error
\* objects with an empty results list.
execute_code_local(response) ==
    CASE response = "http_error" ->
             Returned(Json(TRUE, "HTTP_ERROR", ErrorText(response), <<>>))
      [] response = "unreachable" ->
             Returned(Json(TRUE, "EXECUTION_ERROR", ErrorText(response), <<>>))
      [] OTHER -> Returned(ServiceJson(response))

\* sandbox.context.execute_async of the SDK: failures of the call are raised.
execute_async(response) ==
    IF response \in TransportFailures
    THEN Raised(ErrorText(response))
    ELSE Returned(ServiceJson(response))

\* An executor's return value: the envelope, Python's None, or (shell) the
\* service's own JSON, which has no status.
Envelope(status, exitCode, stdout, stderr) ==
    [kind |-> "envelope", status |-> status, exitCode |-> exitCode,
     stdout |-> stdout, stderr |-> stderr]
None == [kind |-> "None", status |-> "", exitCode |-> 0, stdout |-> <<>>, stderr |-> <<>>]
ShellJson(exitCode, stdout, stderr) ==
    [kind |-> "json", status |-> "", exitCode |-> exitCode,
     stdout |-> stdout, stderr |-> stderr]

\* The texts of the items of one type, in order.
TextsOf(results, type) ==
    LET sel == SelectSeq(results, LAMBDA it : it.type = type)
    IN [i \in 1..Len(sel) |-> sel[i].text]

\* sandbox_executor.py:582-661 and 742-808: the envelope made from the
\* service's JSON.  Only stdout, stderr and result items are looked at, and
\* only the codes INVALID_REQUEST and NOT_FOUND of an answer without results.
ParseResult(result) ==
    IF ~result.is_dict
    THEN Envelope("failed", 1, <<>>, <<"Invalid response type">>)
    ELSE IF result.results = <<>> /\ result.code \in {"INVALID_REQUEST", "NOT_FOUND"}
    THEN Envelope("failed", 1, TextsOf(result.results, "stdout"), <<result.message>>)
    ELSE Envelope("completed", 0, TextsOf(result.results, "stdout"),
                  TextsOf(result.results, "stderr"))

\* The call both streaming executors make (sandbox_executor.py:554-575, 713-724).
ContextCall(local_mode, response) ==
    IF local_mode THEN execute_code_local(response) ELSE execute_async(response)

\* sandbox_executor.py:513-671: the except clause ends without a return.
execute_python_code_streaming(local_mode, response) ==
    LET r == ContextCall(local_mode, response)
    IN IF r.raised THEN None ELSE ParseResult(r.value)

\* sandbox_executor.py:673-829.
execute_nodejs_code_streaming(local_mode, response) ==
    LET r == ContextCall(local_mode, response)
    IN IF r.raised
       THEN Envelope("failed", 1, <<>>, <<"exec failed: ", r.error>>)
       ELSE ParseResult(r.value)

\* sandbox_executor.py:414-511: the service's JSON is returned as it is; the
\* two except clauses return an envelope.
execute_shell_command(response) ==
    CASE response = "exit_zero" -> ShellJson(0, <<"out">>, <<>>)
      [] response = "exit_nonzero" -> ShellJson(1, <<>>, <<ErrorText(response)>>)
      [] response = "http_error" ->
             Envelope("failed", -1, <<>>, <<"HTTP Error: ", ErrorText(response)>>)
      [] OTHER -> Envelope("failed", -1, <<>>, <<"Error: ", ErrorText(response)>>)

\* main.py:857-913: run_code calls the executor of the language; a shell
\* result is converted to the envelope by its exit code.
RunExecutor(language, local_mode, response) ==
    IF language = "shell"
    THEN LET r == execute_shell_command(response)
         IN Envelope(IF r.exitCode = 0 THEN "completed" ELSE "failed",
                     r.exitCode, r.stdout, r.stderr)
    ELSE IF language = "javascript"
    THEN execute_nodejs_code_streaming(local_mode, response)
    ELSE execute_python_code_streaming(local_mode, response)

(***************************************************************************)
(* execute_code and the chat WebSockets (sandbox-all-in-one-demo/src/      *)
(* main.py), for one session and one execution, in a run in which no log   *)
(* viewer is connected: push_log_to_vnc returns at main.py:377-380 without *)
(* suspending.  As in the log server, every send ends an atomic step.      *)
(***************************************************************************)
ChatSockets == {"c1", "c2"}

StartMsg == [type |-> "execution_start", status |-> ""]
CompleteMsg(status) == [type |-> "execution_complete", status |-> status]

\* main.py:417-427, one round of the loop of broadcast_to_session: send msg to
\* the first WebSocket of targets.  A failed send removes the WebSocket from
\* the live list; removing one that is no longer there raises ValueError out
\* of broadcast_to_session.
BroadcastSend(cw, rcv, msg, targets) ==
    IF targets = <<>>
    THEN [cw |-> cw, rcv |-> rcv, targets |-> <<>>, raised |-> FALSE]
    ELSE LET ws == Head(targets) IN
         IF chat_open[ws]
         THEN [cw |-> cw, rcv |-> [rcv EXCEPT ![ws] = Append(@, msg)],
               targets |-> Tail(targets), raised |-> FALSE]
         ELSE IF InList(cw, ws)
         THEN [cw |-> ListRemove(cw, ws), rcv |-> rcv,
               targets |-> Tail(targets), raised |-> FALSE]
         ELSE [cw |-> cw, rcv |-> rcv, targets |-> <<>>, raised |-> TRUE]

\* main.py:404-429: broadcast_to_session up to and including its first send;
\* with suspended, a send to a client that has gone suspends before it raises.
broadcast_to_session(cw, rcv, msg, suspended) ==
    IF suspended /\ cw # <<>> /\ ~chat_open[Head(cw)]
    THEN [cw |-> cw, rcv |-> rcv, targets |-> cw, raised |-> FALSE]
    ELSE BroadcastSend(cw, rcv, msg, cw)

\* Where execute_code is once a round of a broadcast is over.  pc names the
\* broadcast in progress: "start" (main.py:812), "complete" (the try block
\* of run_code, main.py:944 and 965) or "error" (its except clause,
\* main.py:982).  An exception out of the try block enters the except clause,
\* which broadcasts status error; any other exception leaves execute_code.
AfterErrorRound(r, calls) ==
    [pc |-> IF r.raised THEN "raised" ELSE IF r.targets = <<>> THEN "done" ELSE "error",
     cw |-> r.cw, rcv |-> r.rcv, targets |-> r.targets,
     msg |-> CompleteMsg("error"), calls |-> calls]

AfterRound(pc, msg, r, calls, suspended) ==
    IF r.raised /\ pc = "complete"
    THEN AfterErrorRound(broadcast_to_session(r.cw, r.rcv, CompleteMsg("error"), suspended),
                         Append(calls, CompleteMsg("error")))
    ELSE IF pc = "error"
    THEN AfterErrorRound(r, calls)
    ELSE [pc |-> IF r.raised THEN "raised"
                 ELSE IF r.targets # <<>> THEN pc
                 ELSE IF pc = "start" THEN "run" ELSE "done",
          cw |-> r.cw, rcv |-> r.rcv, targets |-> r.targets, msg |-> msg, calls |-> calls]

SetExec(a) ==
    /\ ex_pc' = a.pc
    /\ chat_websockets' = a.cw
    /\ chat_received' = a.rcv
    /\ ex_targets' = a.targets
    /\ ex_msg' = a.msg
    /\ ex_broadcasts' = a.calls

\* main.py:748-823: POST /api/execute up to the first send of the
\* execution_start broadcast.
ExecuteCode(language, local_mode, response) ==
    /\ ex_pc = "idle"
    /\ ex_language' = language
    /\ ex_local' = local_mode
    /\ ex_response' = response
    /\ \E suspended \in BOOLEAN :
           SetExec(AfterRound("start", StartMsg,
                              broadcast_to_session(chat_websockets, chat_received,
                                                   StartMsg, suspended),
                              <<StartMsg>>, suspended))
    /\ UNCHANGED <<chat_pc, chat_open, exec_result>>

\* broadcast_to_session resumed after a send: the next round of its loop.
BroadcastResume ==
    /\ ex_pc \in {"start", "complete", "error"}
    /\ \E suspended \in BOOLEAN :
           SetExec(AfterRound(ex_pc, ex_msg,
                              BroadcastSend(chat_websockets, chat_received, ex_msg, ex_targets),
                              ex_broadcasts, suspended))
    /\ UNCHANGED <<chat_pc, chat_open, ex_language, ex_local, ex_response, exec_result>>

\* main.py:915-995: the status of the terminal event.  Reading the status of
\* None raises into the except clause of run_code.
TerminalStatus(result) ==
    IF result.kind = "None" THEN "error"
    ELSE IF result.status = "completed" THEN "success" ELSE "failed"

\* main.py:826-998: run_code from the executor call to the first send of the
\* execution_complete broadcast.
RunCode ==
    /\ ex_pc = "run"
    /\ LET result == RunExecutor(ex_language, ex_local, ex_response)
           status == TerminalStatus(result)
           pc == IF status = "error" THEN "error" ELSE "complete"
       IN /\ exec_result' = result
          /\ \E suspended \in BOOLEAN :
                 SetExec(AfterRound(pc, CompleteMsg(status),
                                    broadcast_to_session(chat_websockets, chat_received,
                                                         CompleteMsg(status), suspended),
                                    Append(ex_broadcasts, CompleteMsg(status)), suspended))
    /\ UNCHANGED <<chat_pc, chat_open, ex_language, ex_local, ex_response>>

\* main.py:1140-1166: accept and register the chat WebSocket (the session has
\* no chat messages to replay).
ChatConnect(c) ==
    /\ chat_pc[c] = "new"
    /\ chat_websockets' = Append(chat_websockets, c)
    /\ chat_open' = [chat_open EXCEPT ![c] = TRUE]
    /\ chat_pc' = [chat_pc EXCEPT ![c] = "listening"]
    /\ UNCHANGED <<chat_received, ex_pc, ex_language, ex_local, ex_response,
                   exec_result, ex_msg, ex_targets, ex_broadcasts>>

\* The chat client closes its end of the connection.
ChatClientClose(c) ==
    /\ chat_pc[c] = "listening"
    /\ chat_open[c]
    /\ chat_open' = [chat_open EXCEPT ![c] = FALSE]
    /\ UNCHANGED <<chat_websockets, chat_pc, chat_received, ex_pc, ex_language, ex_local,
                   ex_response, exec_result, ex_msg, ex_targets, ex_broadcasts>>

\* main.py:1172-1212: receive_json raises WebSocketDisconnect once the client
\* has gone, and the handler removes the WebSocket (ValueError, which ends the
\* handler as well, when a broadcast removed it first).
ChatReceive(c) ==
    /\ chat_pc[c] = "listening"
    /\ ~chat_open[c]
    /\ chat_pc' = [chat_pc EXCEPT ![c] = "done"]
    /\ chat_websockets' = IF InList(chat_websockets, c)
                          THEN ListRemove(chat_websockets, c) ELSE chat_websockets
    /\ UNCHANGED <<chat_open, chat_received, ex_pc, ex_language, ex_local,
                   ex_response, exec_result, ex_msg, ex_targets, ex_broadcasts>>

(***************************************************************************)
(* Signals and the registry lock (examples/runner.py).  The program calls  *)
(* the registry from its main thread; Python runs a signal handler in the  *)
(* main thread, between two bytecodes of whatever it was executing, so the *)
(* main thread is a stack of frames of which the top one runs.  _lock is a *)
(* threading.Lock: it is not reentrant, and lock_owner is the position on  *)
(* the stack of the frame that holds it (0 when it is free).               *)
(***************************************************************************)
Frame(fn, pc, key, force, id, ids) ==
    [fn |-> fn, pc |-> pc, key |-> key, force |-> force, id |-> id, ids |-> ids]

Top == stack[Len(stack)]
Pop == SubSeq(stack, 1, Len(stack) - 1)
SetTop(f) == [stack EXCEPT ![Len(stack)] = f]
Running(fn, pc) == stack # <<>> /\ ~exited /\ Top.fn = fn /\ Top.pc = pc

\* `with _lock:` can be entered.
LockFree == lock_owner = 0

\* The program calls create_or_get_sandbox or destroy_sandbox.
ProgramCall(f) ==
    /\ stack = <<>> /\ ~exiting /\ ~exited
    /\ f.fn = "create_or_get_sandbox"
       => f.key[1] # "" /\ f.key[2] # "" /\ f.key[3] # ""
    /\ stack' = <<f>>
    /\ UNCHANGED <<lock_owner, signals, exiting, exited, exit_code, cleanup_returned, regVars>>

\* runner.py:116-125: the lock is taken; an active manager is returned at
\* once, otherwise SandboxManager.create is called with the lock held.
CreateAcquire ==
    /\ Running("create_or_get_sandbox", "acquire")
    /\ LockFree
    /\ IF Reusable(sandbox_instances, Top.key, Top.force)
       THEN stack' = Pop /\ UNCHANGED lock_owner
       ELSE /\ created < MaxSandboxes
            /\ stack' = SetTop([Top EXCEPT !.pc = "creating"])
            /\ lock_owner' = Len(stack)
    /\ UNCHANGED <<signals, exiting, exited, exit_code, cleanup_returned, regVars>>

\* runner.py:131-145: the provider's create returns, the manager is saved,
\* the lock is released.
CreateReturn ==
    /\ Running("create_or_get_sandbox", "creating")
    /\ LET c == ManagerCreate(NewManager, allocated, created + 1, "ok")
           w == Install([World EXCEPT !.alloc = c.alloc], Top.key, c.m)
       IN /\ sandbox_instances' = w.si
          /\ sandbox_id_to_key' = w.rev
          /\ allocated' = w.alloc
          /\ created' = created + 1
    /\ stack' = Pop
    /\ lock_owner' = 0
    /\ UNCHANGED <<signals, exiting, exited, exit_code, cleanup_returned, lastCall>>

\* runner.py:215-226: the lock is taken; an unknown id returns False at once,
\* otherwise SandboxManager.destroy is called with the lock held.
DestroyAcquire ==
    /\ Running("destroy_sandbox", "acquire")
    /\ LockFree
    /\ LET session_key == DictGet(sandbox_id_to_key, Top.id, NoKey) IN
       IF session_key = NoKey \/ session_key \notin DOMAIN sandbox_instances
       THEN stack' = Pop /\ UNCHANGED lock_owner
       ELSE /\ stack' = SetTop([Top EXCEPT !.pc = "tearing", !.key = session_key])
            /\ lock_owner' = Len(stack)
    /\ UNCHANGED <<signals, exiting, exited, exit_code, cleanup_returned, regVars>>

\* runner.py:229-237: the provider's teardown returns (ok or not), both
\* entries are deleted, the lock is released.
DestroyReturn(ok) ==
    /\ Running("destroy_sandbox", "tearing")
    /\ LET d == ManagerDestroy(sandbox_instances[Top.key], allocated, ok)
           w == RemoveEntries([World EXCEPT !.alloc = d.alloc], Top.key, Top.id)
       IN /\ sandbox_instances' = w.si
          /\ sandbox_id_to_key' = w.rev
          /\ allocated' = w.alloc
    /\ stack' = Pop
    /\ lock_owner' = 0
    /\ UNCHANGED <<signals, exiting, exited, exit_code, cleanup_returned, created, lastCall>>

\* runner.py:251-252: the ids are snapshotted under the lock.
DestroyAllSnapshot ==
    /\ Running("destroy_all_sandboxes", "acquire")
    /\ LockFree
    /\ \E ids \in Orders(DOMAIN sandbox_id_to_key) :
           stack' = SetTop([Top EXCEPT !.pc = "loop", !.ids = ids])
    /\ UNCHANGED <<lock_owner, signals, exiting, exited, exit_code, cleanup_returned, regVars>>

\* runner.py:254-255: destroy_sandbox is called for the next id.
DestroyAllLoop ==
    /\ Running("destroy_all_sandboxes", "loop")
    /\ IF Top.ids = <<>>
       THEN stack' = Pop
       ELSE stack' = Append(SetTop([Top EXCEPT !.ids = Tail(@)]),
                            Frame("destroy_sandbox", "acquire", NoKey, FALSE,
                                  Head(Top.ids), <<>>))
    /\ UNCHANGED <<lock_owner, signals, exiting, exited, exit_code, cleanup_returned, regVars>>

\* What the registry looked like when a _cleanup_on_exit first returned.
FirstReturn == IF cleanup_returned = <<>> THEN <<World>> ELSE cleanup_returned

\* runner.py:260-272: _cleanup_on_exit looks at the registry under the lock
\* and calls destroy_all_sandboxes when it is not empty.
CleanupCheck ==
    /\ Running("_cleanup_on_exit", "acquire")
    /\ LockFree
    /\ IF sandbox_instances = EmptyDict
       THEN /\ stack' = Pop
            /\ cleanup_returned' = FirstReturn
       ELSE /\ stack' = Append(SetTop([Top EXCEPT !.pc = "return"]),
                               Frame("destroy_all_sandboxes", "acquire", NoKey, FALSE,
                                     NoId, <<>>))
            /\ UNCHANGED cleanup_returned
    /\ UNCHANGED <<lock_owner, signals, exiting, exited, exit_code, regVars>>

CleanupReturn ==
    /\ Running("_cleanup_on_exit", "return")
    /\ stack' = Pop
    /\ cleanup_returned' = FirstReturn
    /\ UNCHANGED <<lock_owner, signals, exiting, exited, exit_code, regVars>>

\* SIGINT or SIGTERM is delivered: runner.py:275-285, _signal_handler calls
\* _cleanup_on_exit.
Signal ==
    /\ ~exited
    /\ signals < MaxSignals
    /\ signals' = signals + 1
    /\ stack' = stack \o <<Frame("_signal_handler", "exit", NoKey, FALSE, NoId, <<>>),
                           Frame("_cleanup_on_exit", "acquire", NoKey, FALSE, NoId, <<>>)>>
    /\ UNCHANGED <<lock_owner, exiting, exited, exit_code, cleanup_returned, regVars>>

\* runner.py:286: sys.exit(0) unwinds every frame of the main thread (a
\* `with _lock` it leaves releases the lock), and the interpreter runs the
\* atexit function _cleanup_on_exit (runner.py:290).
SysExit_Reraises ==
    /\ Running("_signal_handler", "exit")
    /\ exiting' = TRUE
    /\ exit_code' = <<130>>
    /\ lock_owner' = 0
    /\ stack' = <<Frame("_cleanup_on_exit", "acquire", NoKey, FALSE, NoId, <<>>)>>
    /\ UNCHANGED <<signals, exited, cleanup_returned, regVars>>

SysExit ==
    /\ Running("_signal_handler", "exit")
    /\ exiting' = TRUE
    /\ exit_code' = <<0>>
    /\ lock_owner' = 0
    /\ stack' = <<Frame("_cleanup_on_exit", "acquire", NoKey, FALSE, NoId, <<>>)>>
    /\ UNCHANGED <<signals, exited, cleanup_returned, regVars>>

\* The atexit function has returned: the process ends.
ProcessExit ==
    /\ exiting /\ ~exited
    /\ stack = <<>>
    /\ exited' = TRUE
    /\ UNCHANGED <<stack, lock_owner, signals, exiting, exit_code, cleanup_returned, regVars>>

SigInit ==
    /\ stack = <<>>
    /\ lock_owner = 0
    /\ signals = 0
    /\ exiting = FALSE
    /\ exited = FALSE
    /\ exit_code = <<>>
    /\ cleanup_returned = <<>>

(***************************************************************************)
(* The all-in-one chat server (sandbox-all-in-one-demo/src/main.py): one   *)
(* chat session with its message history and its sandbox binding, the      *)
(* provider behind Sandbox.create, the log viewers of                      *)
(* /ws/log/{sandbox_id}, and the server's operations.  An operation is a   *)
(* coroutine: it runs without interruption up to its next send to a        *)
(* WebSocket, so it is written as a list of instructions and one step of   *)
(* the model runs it up to and including one round of a send loop.         *)
(* Operations are started one after the other; the handlers of the         *)
(* WebSockets run between their steps.  What the clients receive and what  *)
(* the message history holds is recorded for the operations that are       *)
(* started as observed.                                                    *)
(***************************************************************************)
VARIABLES
    session,              \* chat_sessions[sid]: its sandbox, sandbox_id, executor and URLs
    provisioned,          \* the sandboxes Sandbox.create has handed out
    sandbox_status,       \* per sandbox: the status the provider reports for it
    messages,             \* chat_sessions[sid]["messages"]
    provisions,           \* number of calls to Sandbox.create
    main_log_websockets,  \* main.log_websockets: sandbox id -> list of viewers
    lv_pc,                \* per viewer: "new", "hello", "listening", "done"
    lv_subject,           \* per viewer: the sandbox id of its URL
    lv_open,              \* per viewer: the client's end is open
    lv_closed,            \* per viewer: the server has called close() on it
    lv_received,          \* per viewer: the log events the client received
    lv_error,             \* per viewer: its handler ended with an unhandled exception
    log_seq,              \* number of calls to push_log_to_vnc so far
    op,                   \* the operation in progress, or the last one
    ops                   \* number of operations started

aioVars == <<session, messages, provisioned, sandbox_status, provisions, main_log_websockets,
             lv_pc, lv_subject, lv_open, lv_closed, lv_received, lv_error, log_seq,
             op, ops>>

LogViewers == {"l1", "l2"}

\* A session without a sandbox.  The URLs stand for the sandbox they point to.
Unbound == [sandbox |-> NoId, sandbox_id |-> NoId, executor |-> NoId,
            cdp_url |-> NoId, vnc_url |-> NoId]

\* The statuses a provider reports for a sandbox, in the spellings of the
\* versions of the SDK; Unreachable: reading sandbox.status raises.
Statuses == {"Running", "READY", "ready", "STOPPED"}
Unreachable == "unreachable"
NoStatus == ""
StatusReports == Statuses \cup {Unreachable}

\* str.upper() on the statuses.
Upper(str) ==
    CASE str = "Running" -> "RUNNING"
      [] str = "ready" -> "READY"
      [] OTHER -> str

\* is_sandbox_alive comparing the status as it is spelled.
is_sandbox_alive_CaseSensitive(status) ==
    IF status = Unreachable THEN FALSE
    ELSE status \in {"RUNNING", "READY"}

\* main.py:156-175, is_sandbox_alive: an exception of the probe is caught
\* and gives False.
is_sandbox_alive(status) ==
    IF status = Unreachable THEN FALSE
    ELSE Upper(status) \in {"RUNNING", "READY"}

\* {"type": "message", "data": msg}: the kind of msg stands for it.
Msg(kind) == [type |-> "message", status |-> kind]

\* A message of the session: the user's message of a turn, or an assistant
\* message (generated code or an error text) of that turn.
Message(kind, turn) ==
    [role |-> IF kind = "user" THEN "user" ELSE "assistant", kind |-> kind, turn |-> turn]

\* No send loop is in progress.  Of a loop in progress: targets are the
\* WebSockets broadcast_to_session has yet to send msg to, i is the position
\* in the live list and e the event of push_log_to_vnc, ws the WebSocket
\* whose send is suspended, disconnected the list of that name.
NoLoop == [kind |-> "none", targets |-> <<>>, msg |-> StartMsg, e |-> 0, i |-> 0,
           ws |-> "", disconnected |-> <<>>]

\* One instruction: k what it does, m the message it is about, h where an
\* exception raised by it is handled (0: nowhere, it leaves the operation;
\* -1: by an `except Exception` that ends the operation), e where it jumps.
Ins(k, m, h, e) == [k |-> k, m |-> m, h |-> h, e |-> e]

SendMessageProgram_GeneratesAnyway ==
    << Ins("append", Msg("user"), 0, 0),
       Ins("broadcast", Msg("user"), 0, 0),
       Ins("provision", StartMsg, 9, 0),
       Ins("push", StartMsg, 9, 0),
       Ins("goto", StartMsg, 0, 9),
       Ins("append", Msg("sandbox_error"), 0, 0),
       Ins("broadcast", Msg("sandbox_error"), 0, 0),
       Ins("return", StartMsg, 0, 0),
       Ins("push", StartMsg, 0, 0),
       Ins("push", StartMsg, 0, 0),
       Ins("generate", StartMsg, 17, 0),
       Ins("append", Msg("assistant_code"), 17, 0),
       Ins("push", StartMsg, 17, 0),
       Ins("push", StartMsg, 17, 0),
       Ins("broadcast", Msg("assistant_code"), 17, 0),
       Ins("return", StartMsg, 0, 0),
       Ins("append", Msg("generation_error"), 0, 0),
       Ins("push", StartMsg, 0, 0),
       Ins("broadcast", Msg("generation_error"), 0, 0),
       Ins("return", StartMsg, 0, 0) >>

\* main.py:618-745, POST /api/chat/send.
SendMessageProgram ==
    << Ins("append", Msg("user"), 0, 0),                \*  1  main.py:649-656
       Ins("broadcast", Msg("user"), 0, 0),             \*  2  main.py:660
       Ins("provision", StartMsg, 6, 0),                \*  3  main.py:664
       Ins("push", StartMsg, 6, 0),                     \*  4  main.py:669
       Ins("goto", StartMsg, 0, 9),                     \*  5
       Ins("append", Msg("sandbox_error"), 0, 0),       \*  6  main.py:671-677
       Ins("broadcast", Msg("sandbox_error"), 0, 0),    \*  7  main.py:678
       Ins("return", StartMsg, 0, 0),                   \*  8  main.py:679
       Ins("push", StartMsg, 0, 0),                     \*  9  main.py:682
       Ins("push", StartMsg, 0, 0),                     \* 10  main.py:683
       Ins("generate", StartMsg, 17, 0),                \* 11  main.py:687-700
       Ins("append", Msg("assistant_code"), 17, 0),     \* 12  main.py:713-721
       Ins("push", StartMsg, 17, 0),                    \* 13  main.py:724
       Ins("push", StartMsg, 17, 0),                    \* 14  main.py:725
       Ins("broadcast", Msg("assistant_code"), 17, 0),  \* 15  main.py:728
       Ins("return", StartMsg, 0, 0),                   \* 16  main.py:730
       Ins("append", Msg("generation_error"), 0, 0),    \* 17  main.py:733-739
       Ins("push", StartMsg, 0, 0),                     \* 18  main.py:741
       Ins("broadcast", Msg("generation_error"), 0, 0), \* 19  main.py:743
       Ins("return", StartMsg, 0, 0) >>                 \* 20  main.py:745

\* main.py:1192-1206 and 1050-1134: a chat message received on the chat
\* WebSocket, and the task process_user_message made for it.
ProcessUserMessageProgram ==
    << Ins("append", Msg("user"), -1, 0),                \*  1  main.py:1192-1199
       Ins("broadcast", Msg("user"), -1, 0),             \*  2  main.py:1203
       Ins("provision", StartMsg, 6, 0),                 \*  3  main.py:1061
       Ins("push", StartMsg, 6, 0),                      \*  4  main.py:1067
       Ins("goto", StartMsg, 0, 9),                      \*  5
       Ins("append", Msg("sandbox_error"), -1, 0),       \*  6  main.py:1069-1075
       Ins("broadcast", Msg("sandbox_error"), -1, 0),    \*  7  main.py:1076
       Ins("return", StartMsg, 0, 0),                    \*  8  main.py:1077
       Ins("push", StartMsg, -1, 0),                     \*  9  main.py:1080
       Ins("push", StartMsg, -1, 0),                     \* 10  main.py:1081
       Ins("generate", StartMsg, 17, 0),                 \* 11  main.py:1085-1098
       Ins("append", Msg("assistant_code"), 17, 0),      \* 12  main.py:1107-1117
       Ins("broadcast", Msg("assistant_code"), 17, 0),   \* 13  main.py:1120
       Ins("push", StartMsg, 17, 0),                     \* 14  main.py:1121
       Ins("push", StartMsg, 17, 0),                     \* 15  main.py:1122
       Ins("return", StartMsg, 0, 0),                    \* 16
       Ins("append", Msg("generation_error"), -1, 0),    \* 17  main.py:1125-1131
       Ins("broadcast", Msg("generation_error"), -1, 0), \* 18  main.py:1132
       Ins("push", StartMsg, -1, 0),                     \* 19  main.py:1133
       Ins("return", StartMsg, 0, 0) >>                  \* 20

\* main.py:748-1009, POST /api/chat/execute with the code in the request.
ExecuteCodeProgram_CleansUp ==
    << Ins("provision", StartMsg, 0, 0),
       Ins("push", StartMsg, 0, 0),
       Ins("broadcast", StartMsg, 0, 0),
       Ins("push", StartMsg, 15, 0),
       Ins("push", StartMsg, 15, 0),
       Ins("execute", StartMsg, 15, 11),
       Ins("push", StartMsg, 15, 0),
       Ins("push", StartMsg, 15, 0),
       Ins("broadcast", CompleteMsg("success"), 15, 0),
       Ins("return", StartMsg, 0, 0),
       Ins("push", StartMsg, 15, 0),
       Ins("broadcast", CompleteMsg("failed"), 15, 0),
       Ins("unbind", StartMsg, 15, 0),
       Ins("return", StartMsg, 0, 0),
       Ins("push", StartMsg, 0, 0),
       Ins("broadcast", CompleteMsg("error"), 0, 0),
       Ins("unbind", StartMsg, 0, 0),
       Ins("return", StartMsg, 0, 0) >>

ExecuteCodeProgram ==
    << Ins("provision", StartMsg, 0, 0),                 \*  1  main.py:797
       Ins("push", StartMsg, 0, 0),                      \*  2  main.py:809
       Ins("broadcast", StartMsg, 0, 0),                 \*  3  main.py:812
       Ins("push", StartMsg, 14, 0),                     \*  4  main.py:851
       Ins("push", StartMsg, 14, 0),                     \*  5  main.py:860, 873, 894
       Ins("execute", StartMsg, 14, 11),                 \*  6  main.py:861-919
       Ins("push", StartMsg, 14, 0),                     \*  7  main.py:931
       Ins("push", StartMsg, 14, 0),                     \*  8  main.py:934
       Ins("broadcast", CompleteMsg("success"), 14, 0),  \*  9  main.py:944
       Ins("return", StartMsg, 0, 0),                    \* 10  main.py:977
       Ins("push", StartMsg, 14, 0),                     \* 11  main.py:963
       Ins("broadcast", CompleteMsg("failed"), 14, 0),   \* 12  main.py:965
       Ins("return", StartMsg, 0, 0),                    \* 13  main.py:977
       Ins("push", StartMsg, 0, 0),                      \* 14  main.py:980
       Ins("broadcast", CompleteMsg("error"), 0, 0),     \* 15  main.py:982
       Ins("return", StartMsg, 0, 0) >>                  \* 16  main.py:995-1009

\* push_log_to_vnc called on its own (a log line of the executor's callback,
\* main.py:830-846).
PushLogProgram ==
    << Ins("push", StartMsg, 0, 0),
       Ins("return", StartMsg, 0, 0) >>

\* main.py:1458-1475, POST /api/log/{sandbox_id}: push_log_to_vnc is called
\* with the keyword argument extra, which it does not have: TypeError.
WriteLogProgram ==
    << Ins("raise", StartMsg, 0, 0),
       Ins("return", StartMsg, 0, 0) >>

\* main.py:1331-1385, DELETE /api/sandbox/{sandbox_id}.
DeleteSandboxProgram ==
    << Ins("close", StartMsg, 0, 0),                     \*  1  main.py:1356-1364
       Ins("forget", StartMsg, 0, 0),                    \*  2  main.py:1372-1377
       Ins("return", StartMsg, 0, 0) >>                  \*  3  main.py:1382

\* main.py:453-505, POST /api/sandbox/create.
CreateSandboxProgram ==
    << Ins("provision", StartMsg, 5, 0),                 \*  1  main.py:484
       Ins("push", StartMsg, 5, 0),                      \*  2  main.py:491
       Ins("push", StartMsg, 5, 0),                      \*  3  main.py:492
       Ins("return", StartMsg, 0, 0),                    \*  4  main.py:494-502
       Ins("raise", StartMsg, 0, 0) >>                   \*  5  main.py:503-504

RebuiltMsg == [type |-> "session_rebuilt", status |-> ""]

\* main.py:544-614, POST /api/session/rebuild.
RebuildSessionProgram ==
    << Ins("old", StartMsg, 0, 4),                       \*  1  main.py:564-568
       Ins("close", StartMsg, 0, 0),                     \*  2  main.py:189-196
       Ins("unbind", StartMsg, 0, 0),                    \*  3  main.py:199-205
       Ins("reset", StartMsg, 0, 0),                     \*  4  main.py:573-577
       Ins("provision", StartMsg, 10, 0),                \*  5  main.py:581
       Ins("push", StartMsg, 10, 0),                     \*  6  main.py:591
       Ins("push", StartMsg, 10, 0),                     \*  7  main.py:592
       Ins("broadcast", RebuiltMsg, 10, 0),              \*  8  main.py:595-602
       Ins("return", StartMsg, 0, 0),                    \*  9  main.py:604-611
       Ins("raise", StartMsg, 0, 0) >>                   \* 10  main.py:612-614

Program(fn) ==
    CASE fn = "send_message" -> SendMessageProgram
      [] fn = "create_sandbox_endpoint" -> CreateSandboxProgram
      [] fn = "rebuild_session" -> RebuildSessionProgram
      [] fn = "process_user_message" -> ProcessUserMessageProgram
      [] fn = "execute_code" -> ExecuteCodeProgram
      [] fn = "push_log_to_vnc" -> PushLogProgram
      [] fn = "write_log" -> WriteLogProgram
      [] fn = "delete_sandbox" -> DeleteSandboxProgram

ProvisionOutcomes == {"ok", "fails", "vnc_url_fails"}
GenerateOutcomes == {"ok", "fails"}
ExecuteOutcomes == {"completed", "failed", "raises"}

\* An operation at its first instruction.  sandbox_id is the path parameter
\* of delete_sandbox and write_log, and the local variable of the others;
\* appended are the messages it has appended to chat_sessions[sid]["messages"],
\* broadcasts the messages it has called broadcast_to_session with, bound the
\* binding create_or_get_sandbox returned to it, connections the viewers
\* delete_sandbox found registered; of its last call of create_or_get_sandbox:
\* probed the status is_sandbox_alive read (NoStatus: none), before the
\* session as the call found it, info what the call returned; n the number
\* of the operation, old the session as rebuild_session found it.
NewOp(fn, sandbox_id, provision, generate, execute, observed) ==
    [fn |-> fn, pc |-> 1, st |-> "running", sandbox_id |-> sandbox_id,
     provision |-> provision, generate |-> generate, execute |-> execute,
     observed |-> observed, loop |-> NoLoop, creates |-> 0, generations |-> 0, appended |-> <<>>,
     broadcasts |-> <<>>, provision_failed |-> FALSE, generate_failed |-> FALSE,
     bound |-> Unbound, connections |-> <<>>,
     probed |-> NoStatus, before |-> Unbound, info |-> Unbound,
     n |-> 0, old |-> Unbound]

NoOp == [NewOp("", NoId, "ok", "ok", "completed", FALSE) EXCEPT !.st = "idle"]

\* The state an operation works on.
Machine ==
    [op |-> op, cw |-> chat_websockets, rcv |-> chat_received,
     lw |-> main_log_websockets, lrcv |-> lv_received, lclosed |-> lv_closed,
     session |-> session, prov |-> provisioned,
     status |-> sandbox_status, n |-> provisions, seq |-> log_seq,
     messages |-> messages]

\* main.py:208-362, create_or_get_sandbox(session_id): a bound sandbox that
\* is alive is returned; a bound one that is not is forgotten together with
\* its log viewers; then Sandbox.create is called, and the new sandbox is
\* bound to the session once its URLs have been obtained.
main_create_or_get_sandbox(M, outcome) ==
    LET s == M.session
        probed == IF s.sandbox # NoId THEN M.status[s.sandbox] ELSE NoStatus
        reuse == s.sandbox # NoId /\ is_sandbox_alive(probed)          \* 235-240
        M0 == [M EXCEPT !.op.probed = probed, !.op.before = s]
        M1 == IF s.sandbox # NoId                                      \* 250-264
              THEN [M0 EXCEPT !.session.sandbox = NoId,
                              !.session.sandbox_id = NoId,
                              !.session.executor = NoId,
                              !.lw = DictDel(@, s.sandbox_id)]
              ELSE M0
        id == M.n + 1
        M2 == [M1 EXCEPT !.n = id, !.op.creates = @ + 1]               \* 278
        M3 == [M2 EXCEPT !.prov = @ \cup {id}, !.status[id] = "READY"]
        new == [sandbox |-> id, sandbox_id |-> id, executor |-> id,   \* 339-349
                cdp_url |-> id, vnc_url |-> id]
    IN IF reuse THEN [m |-> M0, raised |-> FALSE, id |-> s.sandbox_id, info |-> s]
       ELSE IF outcome = "fails" THEN [m |-> M2, raised |-> TRUE, id |-> NoId, info |-> Unbound]
       ELSE IF outcome = "vnc_url_fails" THEN [m |-> M3, raised |-> TRUE, id |-> NoId, info |-> Unbound]
       ELSE [m |-> [M3 EXCEPT !.session = new], raised |-> FALSE, id |-> id, info |-> new]

\* main.py:398-401: `for ws in disconnected: log_websockets[sandbox_id].remove(ws)`.
RECURSIVE RemoveDisconnected(_, _)
RemoveDisconnected(list, disconnected) ==
    IF disconnected = <<>> THEN [list |-> list, raised |-> FALSE]
    ELSE IF ~InList(list, Head(disconnected)) THEN [list |-> list, raised |-> TRUE]
    ELSE RemoveDisconnected(ListRemove(list, Head(disconnected)), Tail(disconnected))

\* The exception raised by the current instruction is handled where h says.
Raise(M) ==
    LET h == Program(M.op.fn)[M.op.pc].h IN
    IF h = 0 THEN [M EXCEPT !.op.st = "raised", !.op.loop = NoLoop]
    ELSE IF h = -1 THEN [M EXCEPT !.op.st = "swallowed", !.op.loop = NoLoop]
    ELSE [M EXCEPT !.op.pc = h, !.op.loop = NoLoop]

Goto(M, pc) == [M EXCEPT !.op.pc = pc, !.op.loop = NoLoop]

\* The operation runs from where it is up to the next send that suspends,
\* or to its end.  A send to a client that is there suspends once the
\* message is on its way; a send to a client that has gone raises, at once
\* or, with suspended, after having suspended first.
RECURSIVE Run(_, _)
Run(M, suspended) ==
    LET o == M.op
        ins == Program(o.fn)[o.pc]
        list == DictGet(M.lw, o.sandbox_id, <<>>)
    IN
    IF o.st # "running" THEN M
    ELSE IF o.loop.kind = "broadcast" THEN
        \* main.py:417-427, the loop of broadcast_to_session
        IF o.loop.targets = <<>> THEN Run(Goto(M, o.pc + 1), suspended)
        ELSE LET ws == Head(o.loop.targets)
                 r == BroadcastSend(M.cw, M.rcv, o.loop.msg, o.loop.targets)
             IN IF chat_open[ws]
                THEN [M EXCEPT !.rcv = IF o.observed THEN r.rcv ELSE @,
                               !.op.loop.targets = r.targets]
                ELSE IF suspended /\ o.loop.ws = ""
                THEN [M EXCEPT !.op.loop.ws = ws]
                ELSE IF r.raised THEN Run(Raise(M), suspended)
                ELSE Run([M EXCEPT !.cw = r.cw, !.op.loop.targets = r.targets,
                                   !.op.loop.ws = ""], suspended)
    ELSE IF o.loop.kind = "push" THEN
        \* main.py:388-401, the loop of push_log_to_vnc over the live list
        IF o.loop.ws # ""
        THEN Run([M EXCEPT !.op.loop.disconnected = Append(@, o.loop.ws),
                           !.op.loop.ws = "", !.op.loop.i = @ + 1], suspended)
        ELSE IF o.loop.i > Len(list)
        THEN LET r == RemoveDisconnected(list, o.loop.disconnected)
                 M1 == IF o.loop.disconnected = <<>> THEN M
                       ELSE [M EXCEPT !.lw = DictSet(@, o.sandbox_id, r.list)]
             IN IF r.raised THEN Run(Raise(M1), suspended)
                ELSE Run(Goto(M1, o.pc + 1), suspended)
        ELSE LET ws == list[o.loop.i] IN
             IF lv_open[ws] /\ ~M.lclosed[ws]
             THEN [M EXCEPT !.lrcv[ws] = IF o.observed THEN Append(@, o.loop.e) ELSE @,
                            !.op.loop.i = @ + 1]
             ELSE IF suspended
             THEN [M EXCEPT !.op.loop.ws = ws]
             ELSE Run([M EXCEPT !.op.loop.disconnected = Append(@, ws),
                                !.op.loop.i = @ + 1], suspended)
    ELSE IF o.loop.kind = "close" THEN
        \* main.py:1358-1364, the loop of delete_sandbox over the live list,
        \* then `del log_websockets[sandbox_id]`
        IF o.loop.i > Len(list)
        THEN Run(Goto([M EXCEPT !.lw = DictDel(@, o.sandbox_id)], o.pc + 1), suspended)
        ELSE [M EXCEPT !.lclosed[list[o.loop.i]] = TRUE, !.op.loop.i = @ + 1]
    ELSE CASE ins.k = "append" ->
                Run([M EXCEPT !.op.appended = Append(@, ins.m.status),
                              !.messages = IF o.observed
                                           THEN Append(@, Message(ins.m.status, o.n))
                                           ELSE @,
                              !.op.pc = @ + 1], suspended)
           [] ins.k = "broadcast" ->
                Run([M EXCEPT !.op.broadcasts = Append(@, ins.m),
                              !.op.loop = [NoLoop EXCEPT !.kind = "broadcast",
                                                         !.targets = M.cw,
                                                         !.msg = ins.m]], suspended)
           [] ins.k = "push" ->
                \* main.py:377-380: without viewers the event is dropped
                LET e == IF o.observed THEN M.seq + 1 ELSE M.seq IN
                IF list = <<>>
                THEN Run([M EXCEPT !.seq = e, !.op.pc = @ + 1], suspended)
                ELSE Run([M EXCEPT !.seq = e,
                                   !.op.loop = [NoLoop EXCEPT !.kind = "push",
                                                              !.e = e,
                                                              !.i = 1]], suspended)
           [] ins.k = "provision" ->
                LET c == main_create_or_get_sandbox(M, o.provision) IN
                IF c.raised
                THEN Run(Raise([c.m EXCEPT !.op.provision_failed = TRUE]), suspended)
                ELSE Run([c.m EXCEPT !.op.sandbox_id = c.id,
                                     !.op.bound = c.m.session,
                                     !.op.info = c.info,
                                     !.op.pc = @ + 1], suspended)
           [] ins.k = "generate" ->
                LET M1 == [M EXCEPT !.op.generations = @ + 1] IN
                IF o.generate = "fails"
                THEN Run(Raise([M1 EXCEPT !.op.generate_failed = TRUE]), suspended)
                ELSE Run(Goto(M1, o.pc + 1), suspended)
           [] ins.k = "execute" ->
                IF o.execute = "raises" THEN Run(Raise(M), suspended)
                ELSE IF o.execute = "failed" THEN Run(Goto(M, ins.e), suspended)
                ELSE Run(Goto(M, o.pc + 1), suspended)
           [] ins.k = "goto" -> Run(Goto(M, ins.e), suspended)
           [] ins.k = "raise" -> Run(Raise(M), suspended)
           [] ins.k = "close" ->
                IF o.sandbox_id \in DOMAIN M.lw
                THEN Run([M EXCEPT !.op.connections = list,
                                   !.op.loop = [NoLoop EXCEPT !.kind = "close", !.i = 1]],
                         suspended)
                ELSE Run(Goto(M, o.pc + 1), suspended)
           [] ins.k = "forget" ->
                \* main.py:1372-1377: only the session's sandbox_id is cleared
                Run(Goto(IF M.session.sandbox_id = o.sandbox_id
                         THEN [M EXCEPT !.session.sandbox_id = NoId] ELSE M,
                         o.pc + 1), suspended)
           [] ins.k = "unbind" ->
                \* main.py:199-205, cleanup_sandbox_resources
                Run(Goto([M EXCEPT !.session.sandbox = NoId,
                                   !.session.sandbox_id = NoId,
                                   !.session.executor = NoId], o.pc + 1), suspended)
           [] ins.k = "old" ->
                \* main.py:564-568: the old sandbox id, when the session has one
                LET M1 == [M EXCEPT !.op.old = M.session,
                                    !.op.sandbox_id = M.session.sandbox_id]
                IN  IF M.session.sandbox_id = NoId THEN Run(Goto(M1, ins.e), suspended)
                    ELSE Run(Goto(M1, o.pc + 1), suspended)
           [] ins.k = "reset" ->
                \* main.py:573-577: a new dict with an empty message list
                Run(Goto([M EXCEPT !.session = Unbound, !.messages = <<>>], o.pc + 1),
                    suspended)
           [] ins.k = "return" -> [M EXCEPT !.op.st = "returned"]

SetMachine(M) ==
    /\ op' = M.op
    /\ chat_websockets' = M.cw
    /\ chat_received' = M.rcv
    /\ main_log_websockets' = M.lw
    /\ lv_received' = M.lrcv
    /\ lv_closed' = M.lclosed
    /\ session' = M.session
    /\ provisioned' = M.prov
    /\ sandbox_status' = M.status
    /\ messages' = M.messages
    /\ provisions' = M.n
    /\ log_seq' = M.seq
    /\ UNCHANGED <<chat_pc, chat_open, ex_pc, ex_language, ex_local, ex_response,
                   exec_result, ex_msg, ex_targets, ex_broadcasts,
                   lv_pc, lv_subject, lv_open, lv_error>>

\* A request arrives: the operation starts and runs to its first send.  The
\* run has at most limit requests.
StartOpWithin(limit, fn, sandbox_id, provision, generate, execute, observed) ==
    /\ op.st # "running"
    /\ ops < limit
    /\ provisions < MaxSandboxes
    /\ ops' = ops + 1
    /\ \E suspended \in BOOLEAN :
           SetMachine(Run([Machine EXCEPT
                               !.op = [NewOp(fn, sandbox_id, provision, generate,
                                             execute, observed) EXCEPT !.n = ops + 1]],
                          suspended))

StartOp(fn, sandbox_id, provision, generate, execute, observed) ==
    StartOpWithin(MaxOps, fn, sandbox_id, provision, generate, execute, observed)

\* The operation is resumed after a send.
ResumeOp ==
    /\ op.st = "running"
    /\ \E suspended \in BOOLEAN : SetMachine(Run(Machine, suspended))
    /\ UNCHANGED ops

\* The provider stops a sandbox (idle timeout): its status is no longer
\* RUNNING (main.py:156-175, is_sandbox_alive).
SandboxStops(id) ==
    /\ is_sandbox_alive(sandbox_status[id])
    /\ sandbox_status' = [sandbox_status EXCEPT ![id] = "STOPPED"]
    /\ UNCHANGED <<session, messages, provisioned, provisions, main_log_websockets,
                   lv_pc, lv_subject, lv_open, lv_closed, lv_received, lv_error,
                   log_seq, op, ops, execVars>>

\* The provider reports another status for a sandbox it has handed out, or
\* can no longer be reached for it.
ProviderReports(id, status) ==
    /\ id \in provisioned
    /\ sandbox_status[id] # status
    /\ sandbox_status' = [sandbox_status EXCEPT ![id] = status]
    /\ UNCHANGED <<session, messages, provisioned, provisions, main_log_websockets,
                   lv_pc, lv_subject, lv_open, lv_closed, lv_received, lv_error,
                   log_seq, op, ops, execVars>>

\* main.py:1233-1234: the log WebSocket is accepted and registered.
LogViewerConnect(l, sandbox_id) ==
    /\ lv_pc[l] = "new"
    /\ lv_pc' = [lv_pc EXCEPT ![l] = "hello"]
    /\ lv_subject' = [lv_subject EXCEPT ![l] = sandbox_id]
    /\ lv_open' = [lv_open EXCEPT ![l] = TRUE]
    /\ main_log_websockets' =
           DictSet(main_log_websockets, sandbox_id,
                   Append(DictGet(main_log_websockets, sandbox_id, <<>>), l))
    /\ UNCHANGED <<session, messages, provisioned, sandbox_status, provisions, lv_closed,
                   lv_received, lv_error, log_seq, op, ops, execVars>>

\* main.py:1239-1245: the connected message (event 0) is sent, outside the
\* try block: when the send raises, the handler ends and the WebSocket stays
\* registered.
LogViewerHello(l) ==
    /\ lv_pc[l] = "hello"
    /\ IF lv_open[l] /\ ~lv_closed[l]
       THEN /\ lv_received' = [lv_received EXCEPT ![l] = Append(@, 0)]
            /\ lv_pc' = [lv_pc EXCEPT ![l] = "listening"]
            /\ UNCHANGED lv_error
       ELSE /\ lv_pc' = [lv_pc EXCEPT ![l] = "done"]
            /\ lv_error' = [lv_error EXCEPT ![l] = TRUE]
            /\ UNCHANGED lv_received
    /\ UNCHANGED <<session, messages, provisioned, sandbox_status, provisions, main_log_websockets,
                   lv_subject, lv_open, lv_closed, log_seq, op, ops, execVars>>

\* The viewer closes its end of the connection.
LogViewerClose(l) ==
    /\ lv_pc[l] \in {"hello", "listening"}
    /\ lv_open[l]
    /\ lv_open' = [lv_open EXCEPT ![l] = FALSE]
    /\ UNCHANGED <<session, messages, provisioned, sandbox_status, provisions, main_log_websockets,
                   lv_pc, lv_subject, lv_closed, lv_received, lv_error, log_seq, op, ops,
                   execVars>>

\* main.py:1247-1254: receive_text raises WebSocketDisconnect once the
\* connection has gone, and the handler removes the WebSocket from
\* log_websockets[sandbox_id] (a defaultdict: the key is created when it is
\* missing); list.remove raises ValueError when it is not there.
LogViewerReceive(l) ==
    /\ lv_pc[l] = "listening"
    /\ ~lv_open[l] \/ lv_closed[l]
    /\ lv_pc' = [lv_pc EXCEPT ![l] = "done"]
    /\ LET list == DictGet(main_log_websockets, lv_subject[l], <<>>) IN
       IF InList(list, l)
       THEN /\ main_log_websockets' =
                   DictSet(main_log_websockets, lv_subject[l], ListRemove(list, l))
            /\ UNCHANGED lv_error
       ELSE /\ main_log_websockets' = DictSet(main_log_websockets, lv_subject[l], list)
            /\ lv_error' = [lv_error EXCEPT ![l] = TRUE]
    /\ UNCHANGED <<session, messages, provisioned, sandbox_status, provisions, lv_subject, lv_open,
                   lv_closed, lv_received, log_seq, op, ops, execVars>>

AioInit ==
    /\ session = Unbound
    /\ provisioned = {}
    /\ sandbox_status = [id \in SandboxIds |-> NoStatus]
    /\ messages = <<>>
    /\ provisions = 0
    /\ main_log_websockets = EmptyDict
    /\ lv_pc = [l \in LogViewers |-> "new"]
    /\ lv_subject = [l \in LogViewers |-> NoId]
    /\ lv_open = [l \in LogViewers |-> FALSE]
    /\ lv_closed = [l \in LogViewers |-> FALSE]
    /\ lv_received = [l \in LogViewers |-> <<>>]
    /\ lv_error = [l \in LogViewers |-> FALSE]
    /\ log_seq = 0
    /\ op = NoOp
    /\ ops = 0

(***************************************************************************)
(* Part 6.  The parsing of the generator's answer (ai_code_generator.py).  *)
(* An answer is a text; the model keeps it as a sequence of tokens: the    *)
(* fence, the newline,    the four language tags, and a word that is      *)
(* none of them.  The answer arrives in chunks.                            *)
(***************************************************************************)
VARIABLES llm_response, parsed

genVars == <<llm_response, parsed>>

\* Three backquotes.
Fence == "fence"
NL == "\n"
Word == "x"
Tags == {"javascript", "python", "shell", "bash"}

\* The chunks an answer is made of: a word, a newline, a lone fence, a fence
\* with a tag and nothing else, a block with a tag (with a body, with an
\* empty body, and without the newline before its closing fence), and a
\* block whose tag is none of the four.
Chunks ==
    {<<Word>>, <<NL>>, <<Fence>>, <<Fence, Word, NL, Word, NL, Fence>>}
    \cup {<<Fence, t>> : t \in Tags}
    \cup {<<Fence, t, NL, Word, NL, Fence>> : t \in Tags}
    \cup {<<Fence, t, NL, NL, Fence>> : t \in Tags}
    \cup {<<Fence, t, NL, Word, Fence>> : t \in Tags}

\* The text of an answer: its chunks one after the other.
RECURSIVE Text(_)
Text(chunks) ==
    IF chunks = <<>> THEN <<>> ELSE Head(chunks) \o Text(Tail(chunks))

\* str.strip(): the text without its leading and trailing whitespace.
RECURSIVE strip(_)
strip(text) ==
    IF text = <<>> THEN <<>>
    ELSE IF Head(text) = NL THEN strip(Tail(text))
    ELSE IF text[Len(text)] = NL THEN strip(SubSeq(text, 1, Len(text) - 1))
    ELSE text

NoMatch == [start |-> 0, tag |-> "", body |-> <<>>, end |-> 0]

\* The lazy group (.*?) followed by a newline and a fence: the first position from q on
\* at which a newline is followed by a fence, 0 when there is none.
RECURSIVE LazyEnd(_, _)
LazyEnd(text, q) ==
    IF q + 1 > Len(text) THEN 0
    ELSE IF text[q] = NL /\ text[q + 1] = Fence THEN q
    ELSE LazyEnd(text, q + 1)

\* re.search of the pattern: a fence, one of the four tags, a newline, a
\* lazy group of any characters (re.DOTALL), a newline, a fence.  The match
\* is the one at the leftmost position at which the pattern matches, tried
\* from position p on.
RECURSIVE re_search(_, _)
re_search(text, p) ==
    IF p + 2 > Len(text) THEN NoMatch
    ELSE IF text[p] = Fence /\ text[p + 1] \in Tags /\ text[p + 2] = NL
                /\ LazyEnd(text, p + 3) # 0
         THEN LET q == LazyEnd(text, p + 3)
              IN  [start |-> p, tag |-> text[p + 1],
                   body |-> SubSeq(text, p + 3, q - 1), end |-> q + 1]
         ELSE re_search(text, p + 1)

DefaultExplanation == <<"generated">>

\* ScraperCodeGenerator._parse_response with the language tag returned as it
\* was matched.
parse_response_KeepsTag(response) ==
    LET code_match == re_search(response, 1)
    IN  IF code_match # NoMatch
        THEN LET explanation == strip(SubSeq(response, code_match.end + 1, Len(response)))
             IN  [code |-> strip(code_match.body),
                  language |-> code_match.tag,
                  explanation |-> IF explanation = <<>> THEN DefaultExplanation
                                  ELSE explanation,
                  full_response |-> response]
        ELSE [code |-> strip(response), language |-> "javascript",
              explanation |-> DefaultExplanation, full_response |-> response]

\* ScraperCodeGenerator._parse_response (ai_code_generator.py:324-372).
parse_response(response) ==
    LET code_match == re_search(response, 1)                      \* 343
    IN  IF code_match # NoMatch
        THEN LET language_tag == code_match.tag                   \* 346
                 explanation == strip(SubSeq(response, code_match.end + 1, Len(response)))
             IN  [code |-> strip(code_match.body),                \* 347
                  language |-> IF language_tag \in {"bash", "shell"} THEN "shell"
                               ELSE IF language_tag = "javascript" THEN "javascript"
                               ELSE "python",                     \* 350-355
                  explanation |-> IF explanation = <<>> THEN DefaultExplanation
                                  ELSE explanation,               \* 358-360
                  full_response |-> response]
        ELSE [code |-> strip(response), language |-> "javascript",     \* 363-364
              explanation |-> DefaultExplanation, full_response |-> response]

NoParse == [code |-> <<>>, language |-> "", explanation |-> <<>>, full_response |-> <<>>]

\* The generator's answer grows by one chunk.
LlmChunk(chunk) ==
    /\ parsed = NoParse
    /\ Len(llm_response) < MaxChunks
    /\ llm_response' = Append(llm_response, chunk)
    /\ UNCHANGED parsed

\* generate_code hands the complete answer to _parse_response.
ParseResponse ==
    /\ parsed = NoParse
    /\ parsed' = parse_response(Text(llm_response))
    /\ UNCHANGED llm_response

GenInit ==
    /\ llm_response = <<>>
    /\ parsed = NoParse

(***************************************************************************)
(* Part 7.  Reading the log buffer of the VNC server (vnc_server.py,       *)
(* GET /api/log/{sandbox_id}).                                             *)
(***************************************************************************)
VARIABLES logs_reply   \* the last call of get_logs: its arguments, the buffer, its reply

qryVars == <<logs_reply>>

\* The sandbox ids get_logs is asked for: those with a buffer and one without.
QuerySubjects == LogSubjects \cup {"sbx-none"}

\* The values of the query parameter limit.
Limits == (0 - MaxEvents - 1)..(MaxEvents + 1)

\* Python's list[start:].
SliceFrom(list, start) ==
    LET n == Len(list)
        first == IF start < 0
                 THEN (IF start + n < 0 THEN 0 ELSE start + n)
                 ELSE (IF start > n THEN n ELSE start)
    IN  SubSeq(list, first + 1, n)

\* vnc_server.py:296-300, the logs get_logs returns.
get_logs(queues, sandbox_id, limit) ==
    LET logs == DictGet(queues, sandbox_id, <<>>)
    IN  IF Len(logs) > limit THEN SliceFrom(logs, 0 - limit) ELSE logs

NoReply == [sandbox_id |-> NoSubject, limit |-> 0, buffer |-> <<>>, logs |-> <<>>]

\* GET /api/log/{sandbox_id}?limit=...
GetLogs(sandbox_id, limit) ==
    /\ logs_reply' = [sandbox_id |-> sandbox_id, limit |-> limit,
                      buffer |-> DictGet(log_queues, sandbox_id, <<>>),
                      logs |-> get_logs(log_queues, sandbox_id, limit)]
    /\ UNCHANGED logVars

QryInit == logs_reply = NoReply

(***************************************************************************)
(* Part 8.  Chat turns of the all-in-one server that overlap (main.py:     *)
(* send_message, websocket_chat_endpoint, process_user_message), in a run  *)
(* in which no log viewer is connected and the sandbox is provided: the    *)
(* only awaits that can suspend a turn are the sends of                    *)
(* broadcast_to_session, and a turn that arrives on a chat WebSocket       *)
(* continues in a task of its own (asyncio.create_task).                   *)
(***************************************************************************)
VARIABLES
    turn_pc,        \* per turn: "new", "sent" (user message stored and broadcast), "done"
    turn_before,    \* per turn: the messages stored before its user message
    turn_history    \* per turn: the conversation_history passed to the generator

turnVars == <<turn_pc, turn_before, turn_history>>

Turns == 1..MaxTurns

\* How a turn arrives: POST /api/chat/send, or a message on a chat WebSocket.
Paths == {"http", "ws"}

\* Python's list[:-1].
AllButLast(list) == IF list = <<>> THEN <<>> ELSE SubSeq(list, 1, Len(list) - 1)

\* main.py:689-699 and 1088-1098: the messages of the two roles, without the
\* last one.
conversation_history(msgs) ==
    AllButLast(SelectSeq(msgs, LAMBDA msg : msg.role \in {"user", "assistant"}))

\* main.py:687-721, 733-739 (1085-1118, 1126-1132): the generator is called
\* with the history, and its answer or the error text is stored.
Generate(t, msgs, generate) ==
    /\ turn_history' = [turn_history EXCEPT ![t] = conversation_history(msgs)]
    /\ messages' = Append(msgs, Message(IF generate = "ok" THEN "assistant_code"
                                        ELSE "generation_error", t))
    /\ turn_pc' = [turn_pc EXCEPT ![t] = "done"]

\* main.py:639-660 and 1183-1206: the user message of the turn is stored and
\* broadcast.  A turn of send_message goes on to the generator at once when
\* no chat WebSocket is connected (nothing is sent).
TurnBegin(t, path, generate) ==
    /\ turn_pc[t] = "new"
    /\ path = "ws" => chat_websockets # <<>>
    /\ turn_before' = [turn_before EXCEPT ![t] = messages]
    /\ IF chat_websockets # <<>>
       THEN /\ messages' = Append(messages, Message("user", t))
            /\ turn_pc' = [turn_pc EXCEPT ![t] = "sent"]
            /\ UNCHANGED turn_history
       ELSE Generate(t, Append(messages, Message("user", t)), generate)
    /\ UNCHANGED <<session, provisioned, sandbox_status, provisions, main_log_websockets,
                   lv_pc, lv_subject, lv_open, lv_closed, lv_received, lv_error, log_seq,
                   op, ops>>

\* The turn is resumed after the broadcast, or its task is run.
TurnGenerate(t, generate) ==
    /\ turn_pc[t] = "sent"
    /\ Generate(t, messages, generate)
    /\ UNCHANGED <<turn_before, session, provisioned, sandbox_status, provisions,
                   main_log_websockets, lv_pc, lv_subject, lv_open, lv_closed,
                   lv_received, lv_error, log_seq, op, ops>>

TurnInit ==
    /\ turn_pc = [t \in Turns |-> "new"]
    /\ turn_before = [t \in Turns |-> <<>>]
    /\ turn_history = [t \in Turns |-> <<>>]

(***************************************************************************)
(* Part 9.  Executing the code of a stored message (main.py: send_message  *)
(* stores the assistant message, execute_code looks it up by message_id    *)
(* and run_code picks the executor).                                       *)
(***************************************************************************)
VARIABLES
    chat_messages,   \* chat_sessions[sid]["messages"]: the stored messages
    execution        \* the last request to /api/execute and what became of it

dspVars == <<chat_messages, execution>>

MessageIds == 1..MaxMessages
NoLanguage == "absent"
NoCode == "absent"

\* ExecuteCodeRequest (main.py:87-94): a field the request leaves out takes
\* its default.
ExecuteCodeRequest(message_id, code, language) ==
    [message_id |-> message_id,
     code |-> code,
     language |-> IF language = NoLanguage THEN "javascript" ELSE language]

\* main.py:711-721: the assistant message keeps the code and the language
\* that _parse_response detected.
AssistantMessage(language) ==
    /\ Len(chat_messages) < MaxMessages
    /\ chat_messages' = Append(chat_messages,
                               [message_id |-> Len(chat_messages) + 1, role |-> "assistant",
                                code |-> "stored", language |-> language])
    /\ UNCHANGED execution

\* main.py:639-656: a user message has neither code nor language.
UserMessage ==
    /\ Len(chat_messages) < MaxMessages
    /\ chat_messages' = Append(chat_messages,
                               [message_id |-> Len(chat_messages) + 1, role |-> "user",
                                code |-> NoCode, language |-> NoLanguage])
    /\ UNCHANGED execution

\* main.py:784-788: the first stored message with the id, if any.
FindMessage(msgs, message_id) ==
    LET at == {i \in 1..Len(msgs) : msgs[i].message_id = message_id}
    IN  IF at = {} THEN <<>>
        ELSE <<msgs[CHOOSE i \in at : \A j \in at : i <= j]>>

\* main.py:853-854: run_code takes the language of the request.
run_code_language(request, found) == request.language

\* main.py:857-913: the executor call run_code makes for a language.
Dispatch(language) ==
    IF language = "shell" THEN "execute_shell_command"
    ELSE IF language = "javascript" THEN "execute_nodejs_code_streaming"
    ELSE "execute_python_code_streaming"

NoExecution ==
    [status |-> "none", message_id |-> 0, code |-> NoCode, language |-> NoLanguage,
     stored |-> NoLanguage, executor |-> ""]

\* main.py:769-913: POST /api/execute from the request to the executor call.
\* A request without code whose message is missing or has no code is
\* answered with 404.
DispatchCode(message_id, code, language) ==
    LET request == ExecuteCodeRequest(message_id, code, language)
        found == IF request.code # NoCode THEN <<>>
                 ELSE FindMessage(chat_messages, request.message_id)
        missing == request.code = NoCode /\ (found = <<>> \/ found[1].code = NoCode)
        lang == run_code_language(request, found)
    IN  /\ execution' =
               IF missing
               THEN [NoExecution EXCEPT !.status = "404", !.message_id = message_id]
               ELSE [status |-> "dispatched", message_id |-> message_id,
                     code |-> IF request.code # NoCode THEN request.code ELSE found[1].code,
                     language |-> lang,
                     stored |-> IF found = <<>> THEN NoLanguage ELSE found[1].language,
                     executor |-> Dispatch(lang)]
        /\ UNCHANGED chat_messages

DspInit ==
    /\ chat_messages = <<>>
    /\ execution = NoExecution

(***************************************************************************)
(* Part 10.  SandboxManager used on its own (langchain-with-agentrun-demo/ *)
(* sandbox_manager.py and browseruse-with-agentrun-demo/examples/          *)
(* sandbox_manager.py): one manager of each, with all four fields.         *)
(***************************************************************************)
VARIABLES
    managers,       \* the fields of each SandboxManager
    mgr_allocated,  \* sandboxes that exist at the provider
    mgr_created,    \* number of sandbox ids the provider has issued
    mgr_call        \* the last call of a manager and what became of it

mgrVars == <<managers, mgr_allocated, mgr_created, mgr_call>>

Flavors == {"langchain", "browseruse"}

\* SandboxManager.__init__.
SandboxManager == [sandbox |-> NoId, sandbox_id |-> NoId, cdp_url |-> NoId, vnc_url |-> NoId]

\* SandboxManager.create (langchain sandbox_manager.py:25-76, browseruse
\* sandbox_manager.py:32-96).  The langchain manager returns get_info() when
\* it has a sandbox; the browseruse manager always creates.  Sandbox.create
\* raises before any field is assigned; a failure to get the CDP URL raises
\* after _sandbox and _sandbox_id were assigned.  Every exception leaves as
\* RuntimeError.
create(flavor, m, alloc, newid, outcome) ==
    IF flavor = "langchain" /\ m.sandbox # NoId
    THEN [m |-> m, alloc |-> alloc, raised |-> FALSE, issued |-> {}]
    ELSE IF outcome = "create_fails"
    THEN [m |-> m, alloc |-> alloc, raised |-> TRUE, issued |-> {}]
    ELSE IF outcome = "url_fails"
    THEN [m |-> [m EXCEPT !.sandbox = newid, !.sandbox_id = newid],
          alloc |-> alloc \cup {newid}, raised |-> TRUE, issued |-> {newid}]
    ELSE [m |-> [sandbox |-> newid, sandbox_id |-> newid, cdp_url |-> newid, vnc_url |-> newid],
          alloc |-> alloc \cup {newid}, raised |-> FALSE, issued |-> {newid}]

NoManagerCall ==
    [fn |-> "none", flavor |-> "", outcome |-> "", raised |-> FALSE, issued |-> {},
     before |-> SandboxManager, info |-> SandboxManager]

\* A call of manager.create().
Create(flavor, outcome) ==
    LET c == create(flavor, managers[flavor], mgr_allocated, mgr_created + 1, outcome) IN
    /\ c.issued # {} => mgr_created < MaxSandboxes
    /\ (c.issued = {} /\ ~c.raised) => outcome = "ok"
    /\ managers' = [managers EXCEPT ![flavor] = c.m]
    /\ mgr_allocated' = c.alloc
    /\ mgr_created' = mgr_created + Cardinality(c.issued)
    /\ mgr_call' = [fn |-> "create", flavor |-> flavor, outcome |-> outcome,
                    raised |-> c.raised, issued |-> c.issued,
                    before |-> managers[flavor],
                    info |-> IF c.raised THEN SandboxManager ELSE c.m]

\* A call of manager.destroy() (langchain sandbox_manager.py:162-197,
\* browseruse sandbox_manager.py:183-220): the fields are cleared whether the
\* SDK's delete succeeds or raises.
Destroy(flavor, ok) ==
    LET m == managers[flavor] IN
    /\ m.sandbox = NoId => ok
    /\ managers' = [managers EXCEPT ![flavor] = SandboxManager]
    /\ mgr_allocated' = IF ok THEN mgr_allocated \ {m.sandbox} ELSE mgr_allocated
    /\ mgr_call' = [NoManagerCall EXCEPT !.fn = "destroy", !.flavor = flavor, !.before = m]
    /\ UNCHANGED mgr_created

MgrInit ==
    /\ managers = [flavor \in Flavors |-> SandboxManager]
    /\ mgr_allocated = {}
    /\ mgr_created = 0
    /\ mgr_call = NoManagerCall

vars == <<regVars, logVars, execVars, sigVars, aioVars, genVars, qryVars, turnVars, dspVars, mgrVars>>

RegInit ==
    /\ sandbox_instances = EmptyDict
    /\ sandbox_id_to_key = EmptyDict
    /\ allocated = {}
    /\ created = 0
    /\ lastCall = NoCall

LogInit ==
    /\ log_queues = EmptyDict
    /\ log_websockets = EmptyDict
    /\ next_event = 1
    /\ ws_pc = [ws \in WebSockets |-> "new"]
    /\ ws_subject = [ws \in WebSockets |-> NoSubject]
    /\ history_logs = [ws \in WebSockets |-> <<>>]
    /\ sent = [ws \in WebSockets |-> 0]
    /\ ws_error = [ws \in WebSockets |-> FALSE]
    /\ client_open = [ws \in WebSockets |-> FALSE]
    /\ received = [ws \in WebSockets |-> <<>>]
    /\ wr_pc = [p \in Producers |-> "idle"]
    /\ wr_subject = [p \in Producers |-> NoSubject]
    /\ wr_event = [p \in Producers |-> 0]
    /\ wr_targets = [p \in Producers |-> <<>>]
    /\ wr_error = [p \in Producers |-> FALSE]

ExecInit ==
    /\ chat_websockets = <<>>
    /\ chat_pc = [c \in ChatSockets |-> "new"]
    /\ chat_open = [c \in ChatSockets |-> FALSE]
    /\ chat_received = [c \in ChatSockets |-> <<>>]
    /\ ex_pc = "idle"
    /\ ex_language = ""
    /\ ex_local = FALSE
    /\ ex_response = ""
    /\ exec_result = None
    /\ ex_msg = StartMsg
    /\ ex_targets = <<>>
    /\ ex_broadcasts = <<>>

Init == RegInit /\ LogInit /\ ExecInit /\ SigInit /\ AioInit /\ GenInit /\ QryInit /\ TurnInit /\ DspInit /\ MgrInit

\* The registry (runner.py, sandbox_manager.py).
Next ==
    \/ \E k \in KeyInputs, f \in BOOLEAN :
           CreateOrGetSandbox(k[1], k[2], k[3], f) /\ UNCHANGED <<logVars, execVars, sigVars, aioVars, genVars, qryVars, turnVars, dspVars, mgrVars>>
    \/ \E id \in SandboxIds : DestroySandbox(id) /\ UNCHANGED <<logVars, execVars, sigVars, aioVars, genVars, qryVars, turnVars, dspVars, mgrVars>>
    \/ DestroyAllSandboxes /\ UNCHANGED <<logVars, execVars, sigVars, aioVars, genVars, qryVars, turnVars, dspVars, mgrVars>>
    \/ \E id \in SandboxIds : ProviderReclaim(id) /\ UNCHANGED <<logVars, execVars, sigVars, aioVars, genVars, qryVars, turnVars, dspVars, mgrVars>>

Spec == Init /\ [][Next]_vars

\* The log server (vnc_server.py).
LogNext ==
    \/ \E p \in Producers, sid \in LogSubjects : WriteLog(p, sid) /\ UNCHANGED <<regVars, execVars, sigVars, aioVars, genVars, qryVars, turnVars, dspVars, mgrVars>>
    \/ \E p \in Producers : WriteLogResume(p) /\ UNCHANGED <<regVars, execVars, sigVars, aioVars, genVars, qryVars, turnVars, dspVars, mgrVars>>
    \/ \E ws \in WebSockets, sid \in LogSubjects : Connect(ws, sid) /\ UNCHANGED <<regVars, execVars, sigVars, aioVars, genVars, qryVars, turnVars, dspVars, mgrVars>>
    \/ \E ws \in WebSockets : Replay(ws) /\ UNCHANGED <<regVars, execVars, sigVars, aioVars, genVars, qryVars, turnVars, dspVars, mgrVars>>
    \/ \E ws \in WebSockets : Receive(ws) /\ UNCHANGED <<regVars, execVars, sigVars, aioVars, genVars, qryVars, turnVars, dspVars, mgrVars>>
    \/ \E ws \in WebSockets : ClientClose(ws) /\ UNCHANGED <<regVars, execVars, sigVars, aioVars, genVars, qryVars, turnVars, dspVars, mgrVars>>

LogSpec == Init /\ [][LogNext]_vars

\* The log buffer alone: events are written and nobody subscribes.
BurstNext ==
    \E sid \in LogSubjects : WriteLogBurst("p1", sid) /\ UNCHANGED <<regVars, execVars, sigVars, aioVars, genVars, qryVars, turnVars, dspVars, mgrVars>>

BurstSpec == Init /\ [][BurstNext]_vars

\* One execution (main.py, sandbox_executor.py).
ExecNext ==
    \/ \E language \in Languages, local_mode \in BOOLEAN :
           \E response \in ResponsesOf(language) :
               ExecuteCode(language, local_mode, response) /\ UNCHANGED <<regVars, logVars, sigVars, aioVars, genVars, qryVars, turnVars, dspVars, mgrVars>>
    \/ BroadcastResume /\ UNCHANGED <<regVars, logVars, sigVars, aioVars, genVars, qryVars, turnVars, dspVars, mgrVars>>
    \/ RunCode /\ UNCHANGED <<regVars, logVars, sigVars, aioVars, genVars, qryVars, turnVars, dspVars, mgrVars>>
    \/ \E c \in ChatSockets : ChatConnect(c) /\ UNCHANGED <<regVars, logVars, sigVars, aioVars, genVars, qryVars, turnVars, dspVars, mgrVars>>
    \/ \E c \in ChatSockets : ChatClientClose(c) /\ UNCHANGED <<regVars, logVars, sigVars, aioVars, genVars, qryVars, turnVars, dspVars, mgrVars>>
    \/ \E c \in ChatSockets : ChatReceive(c) /\ UNCHANGED <<regVars, logVars, sigVars, aioVars, genVars, qryVars, turnVars, dspVars, mgrVars>>

ExecSpec == Init /\ [][ExecNext]_vars

\* The registry in the main thread, with signals (runner.py).
SigNext ==
    \/ \E k \in KeyInputs, f \in BOOLEAN :
           ProgramCall(Frame("create_or_get_sandbox", "acquire", k, f, NoId, <<>>))
           /\ UNCHANGED <<logVars, execVars, aioVars, genVars, qryVars, turnVars, dspVars, mgrVars>>
    \/ \E id \in SandboxIds :
           ProgramCall(Frame("destroy_sandbox", "acquire", NoKey, FALSE, id, <<>>))
           /\ UNCHANGED <<logVars, execVars, aioVars, genVars, qryVars, turnVars, dspVars, mgrVars>>
    \/ CreateAcquire /\ UNCHANGED <<logVars, execVars, aioVars, genVars, qryVars, turnVars, dspVars, mgrVars>>
    \/ CreateReturn /\ UNCHANGED <<logVars, execVars, aioVars, genVars, qryVars, turnVars, dspVars, mgrVars>>
    \/ DestroyAcquire /\ UNCHANGED <<logVars, execVars, aioVars, genVars, qryVars, turnVars, dspVars, mgrVars>>
    \/ \E ok \in BOOLEAN : DestroyReturn(ok) /\ UNCHANGED <<logVars, execVars, aioVars, genVars, qryVars, turnVars, dspVars, mgrVars>>
    \/ DestroyAllSnapshot /\ UNCHANGED <<logVars, execVars, aioVars, genVars, qryVars, turnVars, dspVars, mgrVars>>
    \/ DestroyAllLoop /\ UNCHANGED <<logVars, execVars, aioVars, genVars, qryVars, turnVars, dspVars, mgrVars>>
    \/ CleanupCheck /\ UNCHANGED <<logVars, execVars, aioVars, genVars, qryVars, turnVars, dspVars, mgrVars>>
    \/ CleanupReturn /\ UNCHANGED <<logVars, execVars, aioVars, genVars, qryVars, turnVars, dspVars, mgrVars>>
    \/ Signal /\ UNCHANGED <<logVars, execVars, aioVars, genVars, qryVars, turnVars, dspVars, mgrVars>>
    \/ SysExit /\ UNCHANGED <<logVars, execVars, aioVars, genVars, qryVars, turnVars, dspVars, mgrVars>>
    \/ ProcessExit /\ UNCHANGED <<logVars, execVars, aioVars, genVars, qryVars, turnVars, dspVars, mgrVars>>

SigSpec == Init /\ [][SigNext]_vars

\* Chat turns and executions of the all-in-one server (main.py), with one
\* chat client and one log viewer; what they receive is not recorded.
TurnNext ==
    \/ \E fn \in {"send_message", "process_user_message"} :
           \E provision \in ProvisionOutcomes, generate \in GenerateOutcomes :
               StartOp(fn, NoId, provision, generate, "completed", FALSE)
               /\ UNCHANGED <<regVars, logVars, sigVars, genVars, qryVars, turnVars, dspVars, mgrVars>>
    \/ \E provision \in ProvisionOutcomes, execute \in ExecuteOutcomes :
           StartOp("execute_code", NoId, provision, "ok", execute, FALSE)
           /\ UNCHANGED <<regVars, logVars, sigVars, genVars, qryVars, turnVars, dspVars, mgrVars>>
    \/ ResumeOp /\ UNCHANGED <<regVars, logVars, sigVars, genVars, qryVars, turnVars, dspVars, mgrVars>>
    \/ \E id \in SandboxIds : SandboxStops(id) /\ UNCHANGED <<regVars, logVars, sigVars, genVars, qryVars, turnVars, dspVars, mgrVars>>
    \/ ChatConnect("c1") /\ UNCHANGED <<regVars, logVars, sigVars, aioVars, genVars, qryVars, turnVars, dspVars, mgrVars>>
    \/ ChatClientClose("c1") /\ UNCHANGED <<regVars, logVars, sigVars, aioVars, genVars, qryVars, turnVars, dspVars, mgrVars>>
    \/ ChatReceive("c1") /\ UNCHANGED <<regVars, logVars, sigVars, aioVars, genVars, qryVars, turnVars, dspVars, mgrVars>>
    \/ \E id \in provisioned : LogViewerConnect("l1", id) /\ UNCHANGED <<regVars, logVars, sigVars, genVars, qryVars, turnVars, dspVars, mgrVars>>
    \/ LogViewerHello("l1") /\ UNCHANGED <<regVars, logVars, sigVars, genVars, qryVars, turnVars, dspVars, mgrVars>>
    \/ LogViewerClose("l1") /\ UNCHANGED <<regVars, logVars, sigVars, genVars, qryVars, turnVars, dspVars, mgrVars>>
    \/ LogViewerReceive("l1") /\ UNCHANGED <<regVars, logVars, sigVars, genVars, qryVars, turnVars, dspVars, mgrVars>>

TurnSpec == Init /\ [][TurnNext]_vars

\* The log viewers of one sandbox of the all-in-one server (main.py): log
\* lines are pushed, the sandbox is deleted, viewers come and go.
PurgeNext ==
    \/ \E fn \in {"push_log_to_vnc", "delete_sandbox", "write_log"} :
           StartOp(fn, 1, "ok", "ok", "completed", TRUE)
           /\ UNCHANGED <<regVars, logVars, sigVars, genVars, qryVars, turnVars, dspVars, mgrVars>>
    \/ ResumeOp /\ UNCHANGED <<regVars, logVars, sigVars, genVars, qryVars, turnVars, dspVars, mgrVars>>
    \/ \E l \in LogViewers : LogViewerConnect(l, 1) /\ UNCHANGED <<regVars, logVars, sigVars, genVars, qryVars, turnVars, dspVars, mgrVars>>
    \/ \E l \in LogViewers : LogViewerHello(l) /\ UNCHANGED <<regVars, logVars, sigVars, genVars, qryVars, turnVars, dspVars, mgrVars>>
    \/ \E l \in LogViewers : LogViewerClose(l) /\ UNCHANGED <<regVars, logVars, sigVars, genVars, qryVars, turnVars, dspVars, mgrVars>>
    \/ \E l \in LogViewers : LogViewerReceive(l) /\ UNCHANGED <<regVars, logVars, sigVars, genVars, qryVars, turnVars, dspVars, mgrVars>>

PurgeSpec == Init /\ [][PurgeNext]_vars

\* The session's sandbox in the all-in-one server (main.py): sandboxes are
\* created and reused, deleted, the session is rebuilt, a chat turn is made,
\* the provider reports another status for the sandbox of the session
\* between two requests, and one log viewer connects and stays until the
\* server closes its WebSocket.
SessionNext ==
    \/ \E fn \in {"create_sandbox_endpoint", "rebuild_session"} :
           \E provision \in ProvisionOutcomes :
               StartOpWithin(MaxRequests, fn, NoId, provision, "ok", "completed", FALSE)
               /\ UNCHANGED <<regVars, logVars, sigVars, genVars, qryVars, turnVars, dspVars, mgrVars>>
    \/ \E id \in provisioned :
           StartOpWithin(MaxRequests, "delete_sandbox", id, "ok", "ok", "completed", FALSE)
           /\ UNCHANGED <<regVars, logVars, sigVars, genVars, qryVars, turnVars, dspVars, mgrVars>>
    \/ StartOpWithin(MaxRequests, "send_message", NoId, "ok", "ok", "completed", TRUE)
           /\ UNCHANGED <<regVars, logVars, sigVars, genVars, qryVars, turnVars, dspVars, mgrVars>>
    \/ ResumeOp /\ UNCHANGED <<regVars, logVars, sigVars, genVars, qryVars, turnVars, dspVars, mgrVars>>
    \/ \E status \in StatusReports :
           op.st # "running" /\ ProviderReports(session.sandbox, status)
           /\ UNCHANGED <<regVars, logVars, sigVars, genVars, qryVars, turnVars, dspVars, mgrVars>>
    \/ \E id \in provisioned : LogViewerConnect("l1", id) /\ UNCHANGED <<regVars, logVars, sigVars, genVars, qryVars, turnVars, dspVars, mgrVars>>
    \/ LogViewerHello("l1") /\ UNCHANGED <<regVars, logVars, sigVars, genVars, qryVars, turnVars, dspVars, mgrVars>>
    \/ LogViewerReceive("l1") /\ UNCHANGED <<regVars, logVars, sigVars, genVars, qryVars, turnVars, dspVars, mgrVars>>

SessionSpec == Init /\ [][SessionNext]_vars

\* The answers of the generator and their parsing (ai_code_generator.py).
ParseNext ==
    \/ \E chunk \in Chunks : LlmChunk(chunk) /\ UNCHANGED <<regVars, logVars, execVars, sigVars, aioVars, qryVars, turnVars, dspVars, mgrVars>>
    \/ ParseResponse /\ UNCHANGED <<regVars, logVars, execVars, sigVars, aioVars, qryVars, turnVars, dspVars, mgrVars>>

ParseSpec == Init /\ [][ParseNext]_vars

\* The log buffer of the VNC server is written and read (vnc_server.py), in
\* a run in which nobody subscribes.
QueryNext ==
    \/ \E sid \in LogSubjects : WriteLog("p1", sid) /\ UNCHANGED <<regVars, execVars, sigVars, aioVars, genVars, qryVars, turnVars, dspVars, mgrVars>>
    \/ \E sid \in QuerySubjects, limit \in Limits :
           GetLogs(sid, limit) /\ UNCHANGED <<regVars, execVars, sigVars, aioVars, genVars, turnVars, dspVars, mgrVars>>

QuerySpec == Init /\ [][QueryNext]_vars

\* Chat turns on one session that overlap (main.py), with one chat client.
OverlapNext ==
    \/ ChatConnect("c1") /\ UNCHANGED <<regVars, logVars, sigVars, aioVars, genVars, qryVars, turnVars, dspVars, mgrVars>>
    \/ \E t \in Turns, path \in Paths, generate \in GenerateOutcomes :
           TurnBegin(t, path, generate) /\ UNCHANGED <<regVars, logVars, execVars, sigVars, genVars, qryVars, dspVars, mgrVars>>
    \/ \E t \in Turns, generate \in GenerateOutcomes :
           TurnGenerate(t, generate) /\ UNCHANGED <<regVars, logVars, execVars, sigVars, genVars, qryVars, dspVars, mgrVars>>

OverlapSpec == Init /\ [][OverlapNext]_vars

\* Stored messages and the requests to execute them (main.py).
DispatchNext ==
    \/ \E language \in Languages :
           AssistantMessage(language) /\ UNCHANGED <<regVars, logVars, execVars, sigVars, aioVars, genVars, qryVars, turnVars, mgrVars>>
    \/ UserMessage /\ UNCHANGED <<regVars, logVars, execVars, sigVars, aioVars, genVars, qryVars, turnVars, mgrVars>>
    \/ \E message_id \in MessageIds, code \in {NoCode, "request"},
          language \in Languages \cup {NoLanguage} :
           DispatchCode(message_id, code, language) /\ UNCHANGED <<regVars, logVars, execVars, sigVars, aioVars, genVars, qryVars, turnVars, mgrVars>>

DispatchSpec == Init /\ [][DispatchNext]_vars

\* The managers used without the registry.
ManagerNext ==
    \/ \E flavor \in Flavors, outcome \in CreateOutcomes :
           Create(flavor, outcome) /\ UNCHANGED <<regVars, logVars, execVars, sigVars, aioVars, genVars, qryVars, turnVars, dspVars>>
    \/ \E flavor \in Flavors, ok \in BOOLEAN :
           Destroy(flavor, ok) /\ UNCHANGED <<regVars, logVars, execVars, sigVars, aioVars, genVars, qryVars, turnVars, dspVars>>

ManagerSpec == Init /\ [][ManagerNext]_vars

(***************************************************************************)
(* Properties of the registry (checked under Spec).                        *)
(***************************************************************************)
ValidKeys == {k \in KeyInputs : k[1] # "" /\ k[2] # "" /\ k[3] # ""}

\* The step is the call create_or_get_sandbox(key, force_recreate).
IsCreateOrGet(key, force_recreate) ==
    /\ lastCall'.op = "create_or_get_sandbox"
    /\ lastCall'.key = key
    /\ lastCall'.force = force_recreate
    /\ CreateOrGetSandbox(key[1], key[2], key[3], force_recreate)

\* The step is the call destroy_sandbox(sandbox_id).
IsDestroy(sandbox_id) ==
    /\ lastCall'.op = "destroy_sandbox"
    /\ lastCall'.sandbox_id = sandbox_id
    /\ DestroySandbox(sandbox_id)

\* The ids of the reverse index that point to key.
IdsOf(rev, key) == {i \in DOMAIN rev : rev[i] = key}

\* A sandbox id is known to the registry when looking it up finds a sandbox.
Known(sandbox_id) == get_sandbox_info("", "", "", sandbox_id) # NoId

\* C1: for a valid key, when create_or_get_sandbox(key) without force_recreate
\* directly follows a successful create_or_get_sandbox(key) without
\* force_recreate and the key's manager is still active, the second call
\* returns the same sandbox id with is_new = False and does not invoke the
\* provider's create (so the two calls together invoke it at most once).
C1_SequentialCallsReuse ==
    [][ \A k \in ValidKeys :
          ( /\ lastCall.op = "create_or_get_sandbox"
            /\ lastCall.key = k
            /\ ~lastCall.force
            /\ lastCall.result = "ok"
            /\ k \in DOMAIN sandbox_instances
            /\ is_active(sandbox_instances[k])
            /\ IsCreateOrGet(k, FALSE) )
          => /\ lastCall'.result = "ok"
             /\ lastCall'.ret_id = lastCall.ret_id
             /\ lastCall'.is_new = FALSE
             /\ lastCall'.invoked = 0
             /\ lastCall.invoked <= 1 ]_vars

\* C1 witness: a call without force_recreate has just reused the key's sandbox.
C1_Witness ==
    /\ lastCall.op = "create_or_get_sandbox"
    /\ ~lastCall.force
    /\ lastCall.result = "ok"
    /\ lastCall.is_new = FALSE
    /\ lastCall.invoked = 0
    /\ lastCall.key \in DOMAIN sandbox_instances
    /\ sandbox_instances[lastCall.key].sandbox_id = lastCall.ret_id

\* C2: when create_or_get_sandbox(key, force_recreate=True) directly follows a
\* successful create_or_get_sandbox(key, force_recreate=True), the reverse
\* index then holds exactly one entry pointing to key, and the sandbox id the
\* first call returned is in neither index.
C2_ForcedRecreateReplaces ==
    [][ \A k \in ValidKeys :
          ( /\ lastCall.op = "create_or_get_sandbox"
            /\ lastCall.key = k
            /\ lastCall.force
            /\ lastCall.result = "ok"
            /\ IsCreateOrGet(k, TRUE)
            /\ lastCall'.result = "ok" )
          => /\ Cardinality(IdsOf(sandbox_id_to_key', k)) = 1
             /\ lastCall.ret_id \notin DOMAIN sandbox_id_to_key'
             /\ \A kk \in DOMAIN sandbox_instances' :
                    sandbox_instances'[kk].sandbox_id # lastCall.ret_id ]_vars

\* C3: in every reachable state the two indices are in bijection: every id of
\* the reverse index maps to a key whose forward entry holds exactly that
\* sandbox, and every forward entry has exactly one reverse entry.
C3_IndexBijection ==
    /\ \A i \in DOMAIN sandbox_id_to_key :
          /\ sandbox_id_to_key[i] \in DOMAIN sandbox_instances
          /\ sandbox_instances[sandbox_id_to_key[i]].sandbox_id = i
    /\ \A k \in DOMAIN sandbox_instances :
          Cardinality(IdsOf(sandbox_id_to_key, k)) = 1

\* C4: when create_or_get_sandbox(key) returned sandbox A, A is no longer alive
\* (the provider has reclaimed it) and create_or_get_sandbox(key) is called
\* again without force_recreate, the call succeeds with a new sandbox B,
\* is_new = True, and get_sandbox_info(sandbox_id=A) is then None.
C4_StaleSandboxIsReplaced ==
    [][ \A k \in ValidKeys :
          ( /\ lastCall.op = "create_or_get_sandbox"
            /\ lastCall.key = k
            /\ lastCall.result = "ok"
            /\ lastCall.ret_id \notin allocated
            /\ IsCreateOrGet(k, FALSE)
            /\ lastCall'.result = "ok" )
          => /\ lastCall'.is_new
             /\ lastCall'.ret_id # lastCall.ret_id
             /\ get_sandbox_info("", "", "", lastCall.ret_id)' = NoId ]_vars

\* C5: destroy_sandbox(id) on an id the registry does not know returns False;
\* whenever it returns False it changed neither index and called no provider
\* teardown; on a known id it removes the id's reverse entry and the forward
\* entry of its key; and called directly after destroy_sandbox(id) with the
\* same id it returns False.
C5_DestroyIdempotent ==
    [][ \A id \in SandboxIds :
          IsDestroy(id)
          => /\ ~Known(id) => lastCall'.result = "False"
             /\ lastCall'.result = "False" =>
                   /\ UNCHANGED <<sandbox_instances, sandbox_id_to_key, allocated>>
                   /\ lastCall'.torn = {}
             /\ Known(id) =>
                   /\ id \notin DOMAIN sandbox_id_to_key'
                   /\ sandbox_id_to_key[id] \notin DOMAIN sandbox_instances'
             /\ (lastCall.op = "destroy_sandbox" /\ lastCall.sandbox_id = id) =>
                   lastCall'.result = "False" ]_vars

\* C5 witness: destroy_sandbox has removed a sandbox the provider had issued:
\* it returned True and the id is gone from the reverse index.
C5_Witness ==
    /\ lastCall.op = "destroy_sandbox"
    /\ lastCall.result = "True"
    /\ lastCall.sandbox_id \in 1..created
    /\ lastCall.sandbox_id \notin DOMAIN sandbox_id_to_key
    /\ lastCall.torn = {lastCall.sandbox_id}

\* C6: destroy_sandbox on a known id calls the provider's teardown, removes
\* both index entries and returns True, whether the teardown succeeded or
\* failed; no call that saw the teardown fail returns anything but True.
C6_DestroySurvivesTeardownFailure ==
    [][ \A id \in SandboxIds :
          IsDestroy(id)
          => /\ Known(id) =>
                   /\ lastCall'.torn # {}
                   /\ lastCall'.result = "True"
                   /\ id \notin DOMAIN sandbox_id_to_key'
                   /\ sandbox_id_to_key[id] \notin DOMAIN sandbox_instances'
             /\ lastCall'.failed # {} =>
                   /\ lastCall'.result = "True"
                   /\ id \notin DOMAIN sandbox_id_to_key'
                   /\ \A k \in DOMAIN sandbox_instances' :
                          sandbox_instances'[k].sandbox \notin lastCall'.failed ]_vars

\* C6 witness: the provider's teardown failed (the sandbox is still allocated),
\* and destroy_sandbox returned True with the entries removed.
C6_Witness ==
    /\ lastCall.op = "destroy_sandbox"
    /\ lastCall.failed # {}
    /\ lastCall.failed \subseteq allocated
    /\ lastCall.result = "True"
    /\ lastCall.sandbox_id \notin DOMAIN sandbox_id_to_key

\* C7: when create_or_get_sandbox installs a new sandbox for a key that already
\* had an entry, the old entry's sandbox is torn down best-effort: after the
\* call it is no longer allocated at the provider unless its teardown was
\* called and failed.
C7_OldSandboxTornDown ==
    [][ \A k \in ValidKeys : \A f \in BOOLEAN :
          ( /\ k \in DOMAIN sandbox_instances
            /\ IsCreateOrGet(k, f)
            /\ lastCall'.result = "ok"
            /\ lastCall'.is_new )
          => \/ sandbox_instances[k].sandbox \notin allocated'
             \/ sandbox_instances[k].sandbox \in lastCall'.failed ]_vars

\* C8: after destroy_all_sandboxes(), in whatever order the snapshot of ids
\* was iterated and whichever teardowns failed, the forward index is empty and
\* get_sandbox_info returns None for every key and every sandbox id; and when
\* every id of the snapshot was the sandbox of a registered manager (as when
\* the sandboxes were created for distinct keys), so that the sweep called the
\* teardown of each, the reverse index is empty too.
C8_DestroyAllSweeps ==
    lastCall.op = "destroy_all_sandboxes"
    => /\ sandbox_instances = EmptyDict
       /\ \A k \in ValidKeys : get_sandbox_info(k[1], k[2], k[3], NoId) = NoId
       /\ \A id \in SandboxIds : get_sandbox_info("", "", "", id) = NoId
       /\ lastCall.ids = lastCall.torn => sandbox_id_to_key = EmptyDict

\* C8 witness: a sweep over the sandboxes of two keys in which one teardown
\* failed and the other succeeded has left both indices empty.
C8_Witness ==
    /\ lastCall.op = "destroy_all_sandboxes"
    /\ Cardinality(lastCall.ids) = 2
    /\ lastCall.torn = lastCall.ids
    /\ Cardinality(lastCall.failed) = 1
    /\ sandbox_instances = EmptyDict
    /\ sandbox_id_to_key = EmptyDict

\* C9: a create_or_get_sandbox call whose creation fails at the provider
\* raises RuntimeError and leaves both indices exactly as they were, also when
\* the key already had an entry; a call that reports a new sandbox has
\* installed it in both indices.
C9_FailedCreateLeavesRegistry ==
    [][ \A k \in ValidKeys : \A f \in BOOLEAN :
          IsCreateOrGet(k, f)
          => /\ lastCall'.result \in {"ok", "RuntimeError"}
             /\ lastCall'.result = "RuntimeError" =>
                   /\ UNCHANGED <<sandbox_instances, sandbox_id_to_key>>
                   /\ lastCall'.invoked = 1
             /\ (lastCall'.result = "ok" /\ lastCall'.is_new) =>
                   /\ sandbox_instances'[k].sandbox_id = lastCall'.ret_id
                   /\ sandbox_id_to_key'[lastCall'.ret_id] = k ]_vars

\* C9 witness: a forced re-creation for a key that has an entry has failed, and
\* the entry is still there.
C9_Witness ==
    /\ lastCall.op = "create_or_get_sandbox"
    /\ lastCall.result = "RuntimeError"
    /\ lastCall.force
    /\ lastCall.key \in DOMAIN sandbox_instances
    /\ is_active(sandbox_instances[lastCall.key])
    /\ Cardinality(IdsOf(sandbox_id_to_key, lastCall.key)) = 1

(***************************************************************************)
(* Properties of the log server (checked under LogSpec).                   *)
(***************************************************************************)
\* C10: a subscriber that connects when N log events are in the sandbox's
\* buffer receives exactly those N events, in their original order, before it
\* receives any event appended after it subscribed: the first N messages a
\* client receives are the buffer as it was at subscribe time.
C10_ReplayBeforeLive ==
    \A ws \in WebSockets :
        \A i \in 1..Len(received[ws]) :
            i <= Len(history_logs[ws]) => received[ws][i] = history_logs[ws][i]

\* A subscriber that was registered before the first event was written and
\* whose client is still connected.
ConnectedThroughout(ws) ==
    /\ ws_pc[ws] = "listening"
    /\ client_open[ws]
    /\ history_logs[ws] = <<>>

\* C11: for one sandbox id, whatever the interleaving of concurrent write_log
\* calls, a subscriber that stays connected throughout receives the log events
\* in the order in which they were appended to the buffer (events are numbered
\* in append order, so what it has received is increasing).
C11_FanoutKeepsAppendOrder ==
    \A ws \in WebSockets :
        ConnectedThroughout(ws)
        => \A i, j \in 1..Len(received[ws]) :
               i < j => received[ws][i] < received[ws][j]

\* How many times event e occurs in what a client received.
Deliveries(rcv, e) == Cardinality({i \in 1..Len(rcv) : rcv[i] = e})

\* No write_log call is in flight.
NoWriteInFlight == \A p \in Producers : wr_pc[p] = "idle"

\* C12: a subscriber that connected when events were already being written and
\* is still connected has, once its replay is done and no write_log is in
\* flight, received every event that was in the buffer when it subscribed or
\* was appended afterwards (that is, every event of the buffer) exactly once
\* and nothing else, whatever the interleaving of replay and live sends.
C12_LateSubscriberExactlyOnce ==
    \A ws \in WebSockets :
        ( /\ ws_pc[ws] = "listening"
          /\ client_open[ws]
          /\ history_logs[ws] # <<>>
          /\ NoWriteInFlight )
        => /\ \A i \in 1..Len(log_queues[ws_subject[ws]]) :
                  Deliveries(received[ws], log_queues[ws_subject[ws]][i]) = 1
           /\ \A i \in 1..Len(received[ws]) :
                  InList(log_queues[ws_subject[ws]], received[ws][i])

\* The log buffer of a sandbox id (log_queues is a defaultdict).
Buffer(sid) == DictGet(log_queues, sid, <<>>)

\* C13: with two subscribers on one sandbox id of which the first has gone
\* (sends to it fail) and the second is connected, once no write_log is in
\* flight the second is still in the sandbox's subscriber list and has
\* received every event written since it subscribed: the failing send to the
\* first cost the second neither that event nor a later one.
C13_DeadSubscriberIsolation ==
    \A dead, ws \in WebSockets :
        ( /\ dead # ws
          /\ ws_pc[dead] # "new" /\ ~client_open[dead]
          /\ ws_subject[dead] = ws_subject[ws]
          /\ ws_pc[ws] = "listening" /\ client_open[ws]
          /\ NoWriteInFlight )
        => /\ InList(log_websockets[ws_subject[ws]], ws)
           /\ \A i \in 1..Len(Buffer(ws_subject[ws])) :
                  \/ InList(history_logs[ws], Buffer(ws_subject[ws])[i])
                  \/ Deliveries(received[ws], Buffer(ws_subject[ws])[i]) >= 1

\* C14: a subscriber's send failure is never raised to the event producer:
\* under any interleaving of appends and subscriber disconnects, no write_log
\* call ends in an exception.
C14_SendFailureNotRaised ==
    \A p \in Producers : ~wr_error[p]

(***************************************************************************)
(* Properties of the log buffer (checked under BurstSpec).                 *)
(***************************************************************************)
\* C15: a sandbox's log buffer never holds more than 1000 entries; after n
\* events were appended to one sandbox id (n up to 1500 and beyond the
\* capacity) it holds min(n, 1000) entries, and they are the most recent ones
\* in their original order.
C15_BufferKeepsMostRecent ==
    \A sid \in LogSubjects :
        LET n == next_event - 1
            kept == IF n > LogQueueMaxLen THEN LogQueueMaxLen ELSE n
        IN /\ Len(Buffer(sid)) = kept
           /\ \A i \in 1..kept : Buffer(sid)[i] = n - kept + i

\* C15 witness: MaxBurst events, more than the capacity, were appended and the
\* buffer is full.
C15_Witness ==
    \E sid \in LogSubjects :
        /\ next_event - 1 = MaxBurst
        /\ MaxBurst > LogQueueMaxLen
        /\ Len(Buffer(sid)) = LogQueueMaxLen
        /\ Buffer(sid)[1] = MaxBurst - LogQueueMaxLen + 1

(***************************************************************************)
(* Properties of execute_code (checked under ExecSpec).                    *)
(***************************************************************************)
\* The positions of msgs at which an execution_complete event stands.
Completes(msgs) == {i \in 1..Len(msgs) : msgs[i].type = "execution_complete"}

\* C16: for an execute_code request the terminal state is broadcast exactly
\* once: no chat client receives more than one execution_complete event,
\* broadcast_to_session is called with at most one, after the
\* execution_start event, and when execute_code has ended (normally or with an
\* exception) after broadcasting execution_start it was called with exactly
\* one.
C16_TerminalBroadcastOnce ==
    /\ \A c \in ChatSockets : Cardinality(Completes(chat_received[c])) <= 1
    /\ Cardinality(Completes(ex_broadcasts)) <= 1
    /\ \A i \in Completes(ex_broadcasts) : i > 1 /\ ex_broadcasts[1] = StartMsg
    /\ ex_pc \in {"done", "raised"} => Cardinality(Completes(ex_broadcasts)) = 1

\* The executor has returned: run_code holds its result.
ExecutorReturned == ex_pc \in {"complete", "error", "done"}

\* C17: for each of the three execution backends, a successful run yields an
\* envelope with status "completed" and exitCode 0, and a run whose underlying
\* call reports an error condition (an error item in the results, an error
\* response code, an HTTP or transport failure) yields an envelope with status
\* "failed" whose stderr contains the error text.
C17_ResultNormalized ==
    ExecutorReturned
    => /\ ex_response \in SuccessResponses
          => /\ exec_result.kind = "envelope"
             /\ exec_result.status = "completed"
             /\ exec_result.exitCode = 0
       /\ ex_response \in RemoteFailures \cup TransportFailures
          => /\ exec_result.kind = "envelope"
             /\ exec_result.status = "failed"
             /\ InList(exec_result.stderr, ErrorText(ex_response))

\* The status of the terminal event of the execution.
TerminalEvent == ex_broadcasts[Len(ex_broadcasts)]

\* C18: in the terminal execution_complete event a local or transport
\* exception (the sandbox cannot be reached, the call fails with an HTTP
\* error) is reported with status error and a nonzero exit or rejected request
\* reported by the sandbox with status failed, for python, javascript and
\* shell alike.
C18_ErrorDistinctFromFailed ==
    ex_pc = "done"
    => /\ ex_response \in TransportFailures => TerminalEvent.status = "error"
       /\ ex_response \in {"invalid_request", "exit_nonzero"}
          => TerminalEvent.status = "failed"

(***************************************************************************)
(* Properties of signal handling and locking (checked under SigSpec).      *)
(***************************************************************************)
\* The main thread waits for _lock while one of its own frames holds it: the
\* wait never ends.
BlockedForever ==
    /\ stack # <<>>
    /\ ~exited
    /\ Top.pc = "acquire"
    /\ lock_owner # 0

\* C19: an interrupt delivered at any point, also while a registry operation
\* is in progress or while the teardown of an earlier interrupt is, never
\* leaves the program blocked, and once the process has exited after an
\* interrupt the registry has been torn down.
C19_InterruptTearsDownAndExits ==
    /\ ~BlockedForever
    /\ exited => sandbox_instances = EmptyDict

\* A call to the provider (create or teardown of a sandbox) is in flight.
ProviderCallInFlight ==
    \E i \in 1..Len(stack) : stack[i].pc \in {"creating", "tearing"}

\* C20: no registry operation holds _lock while a call to the provider is in
\* flight.
C20_LockNotHeldAcrossProviderCall ==
    ~(lock_owner # 0 /\ ProviderCallInFlight)

\* C21: _cleanup_on_exit is idempotent: once one invocation of it has
\* returned, a later invocation (the handler of a further signal, the atexit
\* function) makes no call to the provider and leaves the registry and the
\* allocated sandboxes as they were; and a process that was interrupted ends
\* with the exit code 0 of sys.exit(0).
C21_CleanupIdempotentExitZero ==
    /\ cleanup_returned # <<>>
       => /\ World = cleanup_returned[1]
          /\ ~ProviderCallInFlight
    /\ exited => exit_code = <<0>>

\* One signal: the handler's _cleanup_on_exit returned after sandboxes had
\* been created, sys.exit(0) ran, and the atexit invocation has returned too.
C21_Witness ==
    /\ signals = 1
    /\ exiting /\ stack = <<>>
    /\ cleanup_returned # <<>>
    /\ created > 0 /\ allocated = {}
    /\ exited /\ exit_code = <<0>>

(***************************************************************************)
(* Properties of the chat turns and executions of the all-in-one server    *)
(* (checked under TurnSpec).                                               *)
(***************************************************************************)
\* A chat turn has ended: it returned, or an exception ended it.
TurnEnded ==
    /\ op.fn \in {"send_message", "process_user_message"}
    /\ op.st \in {"returned", "raised", "swallowed"}

\* The assistant-role messages among the kinds of messages in seq.
AssistantKinds(seq) == SelectSeq(seq, LAMBDA kind : kind # "user")

\* The assistant-role messages among the messages in seq.
AssistantMsgs(seq) == SelectSeq(seq, LAMBDA m : m.status # "user")

\* C22: when Sandbox provisioning fails during a chat turn the turn is
\* aborted: the code generator is not called, Sandbox.create is called once,
\* and the one assistant message the turn appends to the history and passes
\* to broadcast_to_session is the sandbox error message.
C22_ProvisioningFailureAbortsTurn ==
    TurnEnded /\ op.provision_failed
    => /\ op.generations = 0
       /\ op.creates = 1
       /\ AssistantKinds(op.appended) = <<"sandbox_error">>
       /\ AssistantMsgs(op.broadcasts) = <<Msg("sandbox_error")>>

\* A turn whose provisioning failed has returned, with a chat client
\* registered.
C22_Witness ==
    /\ TurnEnded /\ op.provision_failed
    /\ op.st = "returned"
    /\ chat_websockets # <<>>

\* C23: when code generation fails during a chat turn, the one assistant
\* message the turn appends to the history and passes to
\* broadcast_to_session is the generation error message, and the session is
\* still bound to the sandbox the turn used.
C23_GenerationFailureOneError ==
    TurnEnded /\ op.generate_failed
    => /\ AssistantKinds(op.appended) = <<"generation_error">>
       /\ AssistantMsgs(op.broadcasts) = <<Msg("generation_error")>>
       /\ session = op.bound
       /\ session.sandbox # NoId

\* The status of the execution_complete event an execution ended with.
ExecutionEnded(status) ==
    /\ op.fn = "execute_code"
    /\ op.st \in {"returned", "raised"}
    /\ op.broadcasts # <<>>
    /\ op.broadcasts[Len(op.broadcasts)] = CompleteMsg(status)

\* C24: after an execution that ended failed or error the session is bound
\* to the sandbox and the executor the execution ran with, and the provider
\* still has that sandbox.
C24_FailedExecutionKeepsSandbox ==
    ExecutionEnded("failed") \/ ExecutionEnded("error")
    => /\ session = op.bound
       /\ session.sandbox_id = op.sandbox_id
       /\ session.executor = op.sandbox_id
       /\ op.sandbox_id \in provisioned

\* An execution returned after its code failed in the sandbox.
C24_Witness ==
    /\ ExecutionEnded("failed")
    /\ op.st = "returned"
    /\ op.execute = "failed"
    /\ session.sandbox # NoId

\* C25: no exception leaves send_message or execute_code.
C25_NoExceptionEscapes ==
    op.fn \in {"send_message", "execute_code"} => op.st # "raised"

(***************************************************************************)
(* Unsubscribing (checked under LogSpec).                                  *)
(***************************************************************************)
\* C28: removing a subscriber that is no longer registered is a no-op: the
\* handler of a WebSocket that a failed send of write_log has already taken
\* out of the subscriber list ends without an exception when the
\* disconnect reaches it.
C28_UnsubscribeIdempotent ==
    \A ws \in WebSockets : ~ws_error[ws]

(***************************************************************************)
(* Properties of the log viewers of the all-in-one server (checked under   *)
(* PurgeSpec).                                                             *)
(***************************************************************************)
\* The elements of a list.
Elements(list) == {list[i] : i \in 1..Len(list)}

\* C26: once delete_sandbox has returned, every viewer that was registered
\* for the sandbox id has been closed and is no longer registered, and the
\* handler of none of them has ended with an exception.
C26_PurgeDisconnectsAll ==
    op.fn = "delete_sandbox" /\ op.st = "returned"
    => \A l \in Elements(op.connections) :
           /\ lv_closed[l]
           /\ ~InList(DictGet(main_log_websockets, op.sandbox_id, <<>>), l)
           /\ ~lv_error[l]

\* C27: a log line pushed while the sandbox id has no viewer is kept and
\* delivered to a viewer that connects later: the only viewer there has been,
\* connected and listening, has received every log line pushed so far.
C27_EventsAccumulateWithoutViewers ==
    \A l \in LogViewers :
        ( /\ lv_pc[l] = "listening" /\ lv_open[l] /\ ~lv_closed[l]
          /\ \A k \in LogViewers \ {l} : lv_pc[k] = "new"
          /\ op.st # "running" )
        => \A e \in 1..log_seq : e \in Elements(lv_received[l])

(***************************************************************************)
(* Properties of the parsing of the generator's answer (checked under      *)
(* ParseSpec).                                                             *)
(***************************************************************************)
\* The blocks of a text that carry one of the four tags: <<p, q>> where an
\* opening fence, a tag and a newline stand at p, p + 1 and p + 2, and the
\* first newline followed by a fence after them stands at q.
TaggedBlocks(text) ==
    {b \in (1..Len(text)) \X (1..Len(text)) :
        /\ b[1] + 3 <= b[2] /\ b[2] + 1 <= Len(text)
        /\ text[b[1]] = Fence /\ text[b[1] + 1] \in Tags /\ text[b[1] + 2] = NL
        /\ text[b[2]] = NL /\ text[b[2] + 1] = Fence
        /\ \A r \in (b[1] + 3)..(b[2] - 1) : ~(text[r] = NL /\ text[r + 1] = Fence)}

\* The first of them.
FirstTaggedBlock(text) ==
    CHOOSE b \in TaggedBlocks(text) : \A c \in TaggedBlocks(text) : b[1] <= c[1]

\* C29: for every answer of the generator, the code is the (stripped) body of
\* the first block tagged javascript, python, shell or bash, and the language
\* is that tag, with bash and shell both given as shell; when the answer has
\* no such block the code is the whole (stripped) answer and the language is
\* javascript; the language is always one of javascript, python, shell.
C29_LanguageDetection ==
    parsed # NoParse =>
        LET text == Text(llm_response)
        IN  /\ parsed.language \in {"javascript", "python", "shell"}
            /\ IF TaggedBlocks(text) # {}
               THEN LET b == FirstTaggedBlock(text)
                    IN  /\ parsed.code = strip(SubSeq(text, b[1] + 3, b[2] - 1))
                        /\ parsed.language = IF text[b[1] + 1] \in {"bash", "shell"}
                                             THEN "shell" ELSE text[b[1] + 1]
               ELSE /\ parsed.code = strip(text)
                    /\ parsed.language = "javascript"

\* An answer with a bash block before a python block has been parsed: the
\* code is the bash block's, the language is shell.
C29_Witness ==
    /\ llm_response = << <<Fence, "bash", NL, Word, NL, Fence>>,
                         <<Fence, "python", NL, NL, Fence>> >>
    /\ parsed.language = "shell"
    /\ parsed.code = <<Word>>

(***************************************************************************)
(* Validation of the session key (checked under Spec).                     *)
(***************************************************************************)
\* C30: a call create_or_get_sandbox with an empty user_id, session_id or
\* thread_id ends with the validation error (ValueError), does not invoke the
\* provider (no create, no teardown, the provider's sandboxes are the same),
\* and leaves both registry indexes as they were.
C30_EmptyKeyComponentRejected ==
    [][ \A k \in KeyInputs \ ValidKeys : \A f \in BOOLEAN :
          IsCreateOrGet(k, f)
          => /\ lastCall'.result = "ValueError"
             /\ lastCall'.invoked = 0
             /\ lastCall'.torn = {}
             /\ created' = created
             /\ allocated' = allocated
             /\ sandbox_instances' = sandbox_instances
             /\ sandbox_id_to_key' = sandbox_id_to_key ]_vars

\* C30 witness: a call with an empty key component has just been rejected
\* while the registry holds a sandbox.
C30_Witness ==
    /\ lastCall.op = "create_or_get_sandbox"
    /\ lastCall.key \in KeyInputs \ ValidKeys
    /\ lastCall.result = "ValueError"
    /\ sandbox_instances # EmptyDict
    /\ sandbox_id_to_key # EmptyDict

(***************************************************************************)
(* Properties of the session's sandbox in the all-in-one server (checked   *)
(* under SessionSpec).                                                     *)
(***************************************************************************)
\* C31: when create_or_get_sandbox finds the session with a sandbox, it
\* returns that sandbox without creating one exactly when the status the
\* provider reports is RUNNING or READY in any spelling; with any other
\* status, and when the status cannot be read, it calls Sandbox.create once
\* and, when that succeeds, the session is bound to the new sandbox.
C31_ReuseIffRunningOrReady ==
    op.probed # NoStatus =>
        IF op.probed \in {"Running", "READY", "ready"}
        THEN /\ op.creates = 0
             /\ op.info = op.before
             /\ session = op.before
        ELSE /\ op.creates = 1
             /\ op.provision = "ok" =>
                    /\ op.info.sandbox \notin {NoId, op.before.sandbox}
                    /\ session = op.info
                    /\ session.sandbox_id = op.info.sandbox
             /\ op.provision # "ok" => session.sandbox = NoId

\* C31 witness: a sandbox whose status is spelled in lower case has been
\* reused.
C31_Witness ==
    /\ op.probed = "ready" /\ op.st = "returned" /\ op.creates = 0
    /\ session.sandbox # NoId /\ session = op.info

\* C32: once rebuild_session has returned, the sandbox the session was bound
\* to before is no longer among the provider's sandboxes, the session is
\* bound to a sandbox created by the rebuild, and its message history is
\* empty.
C32_RebuildClosesOldSandbox ==
    (op.fn = "rebuild_session" /\ op.st = "returned") =>
        /\ op.old.sandbox # NoId => op.old.sandbox \notin provisioned
        /\ op.creates = 1
        /\ session.sandbox \notin {NoId, op.old.sandbox}
        /\ session = op.info
        /\ messages = <<>>

(***************************************************************************)
(* Reading the log buffer (checked under QuerySpec).                       *)
(***************************************************************************)
\* C33: for a limit that is not negative, get_logs returns at most limit
\* entries, and they are the last entries of the buffer in the buffer's
\* order: all of them when the buffer has no more than limit entries.
C33_GetLogsAtMostLimit ==
    (logs_reply # NoReply /\ logs_reply.limit >= 0) =>
        LET n == Len(logs_reply.buffer)
            k == IF logs_reply.limit < n THEN logs_reply.limit ELSE n
        IN  /\ Len(logs_reply.logs) <= logs_reply.limit
            /\ logs_reply.logs = SubSeq(logs_reply.buffer, n - k + 1, n)

(***************************************************************************)
(* Posting a log entry to the all-in-one server (checked under PurgeSpec). *)
(***************************************************************************)
\* C34: a call of write_log (POST /api/log/{sandbox_id}) ends by returning,
\* and every viewer that is connected and listening for the sandbox id when
\* it has ended has received the entry it posted.
C34_WriteLogPushesToViewers ==
    (op.fn = "write_log" /\ op.st # "running") =>
        /\ op.st = "returned"
        /\ \A l \in LogViewers :
               ( /\ lv_pc[l] = "listening" /\ lv_open[l] /\ ~lv_closed[l]
                 /\ lv_subject[l] = op.sandbox_id
                 /\ InList(DictGet(main_log_websockets, op.sandbox_id, <<>>), l) )
               => lv_received[l] # <<>> /\ lv_received[l][Len(lv_received[l])] = log_seq

(***************************************************************************)
(* Lookups by sandbox id in the registry (checked under Spec).             *)
(***************************************************************************)
\* C35: in every state of the registry, get_sandbox_info(sandbox_id = x) is
\* None or the info of the sandbox whose id is x, for every sandbox id x; and
\* a call destroy_sandbox(x) has torn down no sandbox other than x.
C35_LookupByIdIsExact ==
    /\ \A x \in SandboxIds :
           get_sandbox_info("", "", "", x) \in {NoId, x}
    /\ lastCall.op = "destroy_sandbox" => lastCall.torn \subseteq {lastCall.sandbox_id}

(***************************************************************************)
(* The binding create_or_get_sandbox returns in the all-in-one server      *)
(* (checked under SessionSpec).                                            *)
(***************************************************************************)
\* C36: when create_or_get_sandbox has returned to an operation, the
\* sandbox_id it returned is not None and is the id of the sandbox and of the
\* executor it returned, and the session's sandbox_id, sandbox, executor,
\* cdp_url and vnc_url are all those of that sandbox.
C36_ReturnedBindingConsistent ==
    op.info.sandbox # NoId =>
        /\ op.info.sandbox_id # NoId
        /\ op.info.sandbox_id = op.info.sandbox
        /\ op.info.executor = op.info.sandbox
        /\ session.sandbox = op.info.sandbox
        /\ session.sandbox_id = op.info.sandbox
        /\ session.executor = op.info.sandbox
        /\ session.cdp_url = op.info.sandbox
        /\ session.vnc_url = op.info.sandbox

(***************************************************************************)
(* The history passed to the generator (checked under OverlapSpec).        *)
(***************************************************************************)
\* list is the beginning of other.
IsPrefix(list, other) ==
    Len(list) <= Len(other) /\ SubSeq(other, 1, Len(list)) = list

\* C37: the conversation history passed to the generator for a turn begins
\* with every message that was stored before the turn's user message, in
\* their order, and does not contain the turn's own user message.
C37_HistoryExcludesOwnMessage ==
    \A t \in Turns :
        turn_pc[t] = "done" =>
            /\ IsPrefix(turn_before[t], turn_history[t])
            /\ ~InList(turn_history[t], Message("user", t))

(***************************************************************************)
(* Properties of executing a stored message (checked under DispatchSpec).  *)
(***************************************************************************)
\* C38: when execute_code runs the code of a stored assistant message (chosen
\* by message_id, the request carrying no code), the executor called is the
\* one of the language stored with that message: python to the python
\* context, javascript to the javascript context, shell to the command API.
C38_StoredCodeDispatchedByStoredLanguage ==
    (execution.status = "dispatched" /\ execution.code = "stored") =>
        execution.executor = Dispatch(execution.stored)

(***************************************************************************)
(* Properties of a manager used on its own (checked under ManagerSpec).    *)
(***************************************************************************)
\* C39: when SandboxManager.create, called on a manager without a sandbox,
\* raises, because the provider could not
\* create the sandbox or because the CDP endpoint of the created sandbox
\* could not be obtained, the manager is not active afterwards and no
\* sandbox the call created exists at the provider; a create() that returns
\* therefore gives a sandbox with its CDP endpoint.
C39_FailedCreateLeavesNothing ==
    /\ (mgr_call.fn = "create" /\ mgr_call.raised /\ mgr_call.before.sandbox = NoId) =>
           /\ ~(managers[mgr_call.flavor].sandbox # NoId)
           /\ mgr_call.issued \cap mgr_allocated = {}
    /\ (mgr_call.fn = "create" /\ ~mgr_call.raised) =>
           /\ mgr_call.info.sandbox # NoId
           /\ mgr_call.info.cdp_url = mgr_call.info.sandbox

====
